---- MODULE Spec2Model ----
(***************************************************************************)
(* State-machine model of the node and street classes of the dsm library:  *)
(*   TrafficLight, Node (Intersection), Roundabout  (dsm/headers/Node.hpp) *)
(*   Street                                          (src/Street.hpp)      *)
(*   SparseMatrix                          (dsm/headers/SparseMatrix.hpp)  *)
(* Each class is one component with its own specification; the variables   *)
(* of the other components stay at their constructed value.                *)
(***************************************************************************)
EXTENDS Integers, Sequences, FiniteSets, TLC

\* ------------------------------------------------------------------------
\* Bounds of the model
\* ------------------------------------------------------------------------
\* Delay is an unsigned integer type; its arithmetic is modulo DelayMod.
DelayMod == 8
\* green and red durations handed to setDelay range over 0..MaxDelay
MaxDelay == 2
\* street ids known to a traffic light
MaxStreet == 1

\* Size is an unsigned integer type; its arithmetic is modulo SizeMod.
SizeMod == 4
\* agent ids range over 0..MaxAgent
MaxAgent == 2
\* a roundabout is followed for at most MaxLog successful enqueue calls
MaxLog == 4
\* setQueue is handed queues of at most MaxQueue agents
MaxQueue == 2
\* addAgent(Id) is followed while the key it assigns is at most MaxKey
MaxKey == 3

\* Index is an unsigned integer type; its arithmetic is modulo IndexMod.
IndexMod == 32
\* a matrix is built with, and followed while it has, at most MaxDim rows and
\* MaxDim columns; row and column arguments range over 0..MaxDim
MaxDim == 2
\* linear indices handed to a matrix range over 0..MaxIndex
MaxIndex == 4
\* a matrix is followed while it stores at most MaxCells values
MaxCells == 2

Delays == 0 .. (DelayMod - 1)
DelayArgs == 0 .. MaxDelay
StreetIds == 0 .. MaxStreet
Sizes == 0 .. (SizeMod - 1)
AgentIds == 0 .. MaxAgent
\* angles handed to addAgent, in thousandths of a radian
AngleArgs == {-19, 0, 19}
\* angles whose keys are the middle and the largest value of int16_t
WideAngleArgs == {0, 327675}
DimArgs == 0 .. MaxDim
\* row and column counts handed to reshape
ShapeArgs == 0 .. (MaxDim + 1)
IndexArgs == 0 .. MaxIndex
\* values handed to a matrix
ValueArgs == {1, 2}

VARIABLES
  m_delay,            \* TrafficLight::m_delay  : [has, first, second]
  m_counter,          \* TrafficLight::m_counter
  m_phase,            \* TrafficLight::m_phase
  m_streetPriorities, \* Node::m_streetPriorities
  greenLog,           \* history: isGreen() after each of the last ticks
  pending,            \* history: the argument of the setPhaseAfterCycle in force
  kind,               \* the class of the object under construction
  m_capacity,         \* NodeConcept::m_capacity
  m_agents,           \* Node::m_agents, in iteration order: <<[key, id], ...>>
  m_agentCounter,     \* Node::m_agentCounter
  rb_agents,          \* Roundabout::m_agents, front first
  enqLog,             \* history: the ids whose enqueue succeeded, in order
  deqLog,             \* history: the ids returned by dequeue, in order
  st_size,            \* Street::m_size
  st_capacity,        \* Street::m_capacity
  st_queue,           \* Street::m_queue, front first
  _matrix,            \* SparseMatrix::_matrix : function from the stored keys
  _rows,              \* SparseMatrix::_rows
  _cols,              \* SparseMatrix::_cols
  _defaultReturn,     \* SparseMatrix::_defaultReturn
  last                \* history: the last call, its arguments and its outcome

tlVars == <<m_delay, m_counter, m_phase, m_streetPriorities, greenLog, pending>>
nodeVars == <<m_capacity, m_agents, m_agentCounter>>
rbVars == <<rb_agents, enqLog, deqLog>>
stVars == <<st_size, st_capacity, st_queue>>
smVars == <<_matrix, _rows, _cols, _defaultReturn>>
vars == <<m_delay, m_counter, m_phase, m_streetPriorities, greenLog, pending,
          kind, m_capacity, m_agents, m_agentCounter, rb_agents, enqLog, deqLog,
          st_size, st_capacity, st_queue, _matrix, _rows, _cols, _defaultReturn, last>>

\* a call: its name, its arguments, what it returned and the error it raised
Call(op, args, ret, err) == [op |-> op, args |-> args, ret |-> ret, err |-> err]
NoPending == [set |-> FALSE, p |-> 0, first |-> 0, second |-> 0]

\* ------------------------------------------------------------------------
\* TrafficLight
\* ------------------------------------------------------------------------
\* unsigned arithmetic of the Delay type
DelayT(x) == x % DelayMod

NoDelay == [has |-> FALSE, first |-> 0, second |-> 0]
MakeDelay(g, r) == [has |-> TRUE, first |-> g, second |-> r]

\* a setDelay(Delay delay) whose first test compares the counter with the
\* new green alone
setDelayCounterGreenOnly(delay, old, counter) ==
  IF old.has /\ counter >= delay
    THEN DelayT(delay + old.second - 1)
    ELSE counter

\* the counter after setDelay(Delay delay): the wrap test uses the OLD red
setDelayCounter(delay, old, counter) ==
  IF old.has
    THEN IF counter >= DelayT(delay + old.second)
           THEN DelayT(delay + old.second - 1)
           ELSE IF delay < old.first /\ counter >= delay /\ counter <= old.first
                  THEN DelayT(delay - (old.first - counter))
                  ELSE counter
    ELSE counter

\* the counter after setDelay(std::pair<Delay, Delay> delay)
setDelayPairCounter(first, second, old, counter) ==
  IF old.has
    THEN IF counter >= DelayT(first + second)
           THEN DelayT(first + second - 1)
           ELSE IF first < old.first /\ counter >= first /\ counter <= old.first
                  THEN DelayT(first - (old.first - counter))
                  ELSE counter
    ELSE counter

\* "if (phase > first + second) phase -= first + second" of setPhase and
\* setPhaseAfterCycle
reducePhase(phase, delay) ==
  IF phase > DelayT(delay.first + delay.second)
    THEN DelayT(phase - DelayT(delay.first + delay.second))
    ELSE phase

\* the (counter, phase) pair after ++m_counter and the wrap test
increaseCounterResult(counter, phase, delay) ==
  LET c == DelayT(counter + 1) IN
  IF c = DelayT(delay.first + delay.second)
    THEN IF phase # 0 THEN <<phase, 0>> ELSE <<0, 0>>
    ELSE <<c, phase>>

\* bool isGreen() const, for a light whose delay is set
isGreen == m_counter < m_delay.first

\* bool isGreen(Id streetId) const, for a light whose delay is set
isGreenStreet(streetId) ==
  LET hasPriority == streetId \in m_streetPriorities IN
  IF isGreen THEN hasPriority ELSE ~hasPriority

\* the last n entries of a sequence
LastN(s, n) == IF Len(s) <= n THEN s ELSE SubSeq(s, Len(s) - n + 1, Len(s))

\* the members of the other classes, as their constructors leave them
Node_constructed ==
  /\ m_capacity = 1
  /\ m_agents = <<>>
  /\ m_agentCounter = 0

Roundabout_constructed ==
  /\ rb_agents = <<>>
  /\ enqLog = <<>>
  /\ deqLog = <<>>

Street_constructed ==
  /\ st_size = 0
  /\ st_capacity = 0
  /\ st_queue = <<>>

\* an std::unordered_map without entries
NoCells == [k \in {} |-> 0]

\* the T _defaultReturn{0} of the constructors
defaultReturn == 0

\* SparseMatrix()
SparseMatrix_constructed ==
  /\ _matrix = NoCells
  /\ _rows = 0
  /\ _cols = 0
  /\ _defaultReturn = defaultReturn

\* a call on a TrafficLight leaves the members it does not name alone
TrafficLight_frame ==
  /\ kind = "TrafficLight"
  /\ UNCHANGED <<kind, nodeVars, rbVars, stVars, smVars>>

TrafficLight_Init ==
  /\ m_delay = NoDelay
  /\ m_counter = 0
  /\ m_phase = 0
  /\ m_streetPriorities = {}
  /\ greenLog = <<>>
  /\ pending = NoPending

TrafficLight_setDelay ==
  /\ TrafficLight_frame
  /\ \E delay \in DelayArgs :
    /\ m_counter' = setDelayCounter(delay, m_delay, m_counter)
    /\ m_delay' = MakeDelay(delay, delay)
    /\ greenLog' = <<>>
    /\ last' = Call("setDelay", <<delay>>, <<>>, "none")
    /\ UNCHANGED <<m_phase, m_streetPriorities, pending>>

TrafficLight_setDelayPair ==
  /\ TrafficLight_frame
  /\ \E first \in DelayArgs, second \in DelayArgs :
    /\ m_counter' = setDelayPairCounter(first, second, m_delay, m_counter)
    /\ m_delay' = MakeDelay(first, second)
    /\ greenLog' = <<>>
    /\ last' = Call("setDelayPair", <<first, second>>, <<>>, "none")
    /\ UNCHANGED <<m_phase, m_streetPriorities, pending>>

TrafficLight_setPhase ==
  /\ TrafficLight_frame
  /\ \E phase \in Delays :
    IF ~m_delay.has
      THEN /\ last' = Call("setPhase", <<phase>>, <<>>, "runtime_error")
           /\ UNCHANGED tlVars
      ELSE /\ m_counter' = reducePhase(phase, m_delay)
           /\ m_phase' = 0
           /\ greenLog' = <<>>
           /\ pending' = NoPending
           /\ last' = Call("setPhase", <<phase>>, <<>>, "none")
           /\ UNCHANGED <<m_delay, m_streetPriorities>>

TrafficLight_setPhaseAfterCycle ==
  /\ TrafficLight_frame
  /\ \E phase \in Delays :
    IF ~m_delay.has
      THEN \* m_delay.value() on an empty optional
           /\ last' = Call("setPhaseAfterCycle", <<phase>>, <<>>, "bad_optional_access")
           /\ UNCHANGED tlVars
      ELSE /\ m_phase' = reducePhase(phase, m_delay)
           /\ pending' = [set |-> TRUE, p |-> phase,
                          first |-> m_delay.first, second |-> m_delay.second]
           /\ greenLog' = <<>>
           /\ last' = Call("setPhaseAfterCycle", <<phase>>, <<>>, "none")
           /\ UNCHANGED <<m_delay, m_counter, m_streetPriorities>>

\* increaseCounter without the test for a delay that was never set
TrafficLight_increaseCounterUnchecked ==
  /\ TrafficLight_frame
  /\ LET res == increaseCounterResult(m_counter, m_phase, m_delay)
     IN /\ m_counter' = res[1]
        /\ m_phase' = res[2]
        /\ last' = Call("increaseCounter", <<>>, <<>>, "none")
        /\ UNCHANGED <<m_delay, m_streetPriorities, greenLog, pending>>

TrafficLight_increaseCounter ==
  /\ TrafficLight_frame
  /\ IF ~m_delay.has
    THEN /\ last' = Call("increaseCounter", <<>>, <<>>, "runtime_error")
         /\ UNCHANGED tlVars
    ELSE LET res == increaseCounterResult(m_counter, m_phase, m_delay)
             wrapped == DelayT(m_counter + 1) = DelayT(m_delay.first + m_delay.second)
         IN /\ m_counter' = res[1]
            /\ m_phase' = res[2]
            /\ pending' = IF wrapped THEN NoPending ELSE pending
            /\ greenLog' = IF wrapped /\ m_phase # 0
                             THEN <<>>
                             ELSE LastN(Append(greenLog, res[1] < m_delay.first),
                                        m_delay.first + m_delay.second)
            /\ last' = Call("increaseCounter", <<>>, <<>>, "none")
            /\ UNCHANGED <<m_delay, m_streetPriorities>>

\* bool isGreen() const
TrafficLight_isGreen ==
  /\ TrafficLight_frame
  /\ last' = IF ~m_delay.has
              THEN Call("isGreen", <<>>, <<>>, "runtime_error")
              ELSE Call("isGreen", <<>>, <<isGreen>>, "none")
  /\ UNCHANGED tlVars

\* bool isGreen(Id streetId) const
TrafficLight_isGreenStreet ==
  /\ TrafficLight_frame
  /\ \E streetId \in StreetIds :
    /\ last' = IF ~m_delay.has
                THEN Call("isGreenStreet", <<streetId>>, <<>>, "runtime_error")
                ELSE Call("isGreenStreet", <<streetId>>, <<isGreenStreet(streetId)>>, "none")
    /\ UNCHANGED tlVars

Node_setStreetPriorities ==
  /\ TrafficLight_frame
  /\ \E streetPriorities \in SUBSET StreetIds :
    /\ m_streetPriorities' = streetPriorities
    /\ last' = Call("setStreetPriorities", <<streetPriorities>>, <<>>, "none")
    /\ UNCHANGED <<m_delay, m_counter, m_phase, greenLog, pending>>

Node_addStreetPriority ==
  /\ TrafficLight_frame
  /\ \E streetId \in StreetIds :
    /\ m_streetPriorities' = m_streetPriorities \cup {streetId}
    /\ last' = Call("addStreetPriority", <<streetId>>, <<>>, "none")
    /\ UNCHANGED <<m_delay, m_counter, m_phase, greenLog, pending>>

InitTL ==
  /\ kind = "TrafficLight"
  /\ TrafficLight_Init
  /\ Node_constructed
  /\ Roundabout_constructed
  /\ Street_constructed
  /\ SparseMatrix_constructed
  /\ last = Call("TrafficLight", <<>>, <<>>, "none")

NextTL ==
  \/ TrafficLight_setDelay
  \/ TrafficLight_setDelayPair
  \/ TrafficLight_setPhase
  \/ TrafficLight_setPhaseAfterCycle
  \/ TrafficLight_increaseCounter
  \/ TrafficLight_isGreen
  \/ TrafficLight_isGreenStreet
  \/ Node_setStreetPriorities
  \/ Node_addStreetPriority

SpecTL == InitTL /\ [][NextTL]_vars

\* the calls that set a light up (delay, phase, priorities), made before the
\* light is ticked
TrafficLight_configure ==
  /\ last.op # "increaseCounter"
  /\ \/ TrafficLight_setDelay
     \/ TrafficLight_setDelayPair
     \/ TrafficLight_setPhase
     \/ TrafficLight_setPhaseAfterCycle
     \/ Node_setStreetPriorities

\* a light that is set up by any calls and from then on only ticked, one
\* increaseCounter after the other, without end
NextTLTicks ==
  \/ TrafficLight_configure
  \/ TrafficLight_increaseCounter

SpecTLTicks ==
  InitTL /\ [][NextTLTicks]_vars /\ WF_vars(TrafficLight_increaseCounter)

\* ------------------------------------------------------------------------
\* Properties of the TrafficLight
\* ------------------------------------------------------------------------
CycleLen == m_delay.first + m_delay.second

RECURSIVE CountTrue(_)
CountTrue(s) == IF s = <<>> THEN 0
                ELSE (IF Head(s) THEN 1 ELSE 0) + CountTrue(Tail(s))

\* C1: once the delay (g, r) of a traffic light is set (with a non-empty
\* cycle), the counter lies in [0, g + r) in every reachable state.
C1_CounterInCycle ==
  (m_delay.has /\ CycleLen > 0) => (0 <= m_counter /\ m_counter < CycleLen)

\* C5: isGreen(streetId) = (counter < green) XOR (streetId not in the priority
\* set); a priority street is green exactly while the counter is in
\* [0, green), a non-priority street exactly while it is in
\* [green, green + red), and the two kinds are never green together.
C5_GreenIsXor ==
  (m_delay.has /\ CycleLen > 0) =>
    /\ \A s \in StreetIds :
         /\ isGreenStreet(s) = ((m_counter < m_delay.first) # (s \notin m_streetPriorities))
         /\ (s \in m_streetPriorities) =>
              (isGreenStreet(s) <=> (0 <= m_counter /\ m_counter < m_delay.first))
         /\ (s \notin m_streetPriorities) =>
              (isGreenStreet(s) <=> (m_delay.first <= m_counter /\ m_counter < CycleLen))
    /\ \A s \in m_streetPriorities, t \in StreetIds \ m_streetPriorities :
         ~(isGreenStreet(s) /\ isGreenStreet(t))

\* C6: over g + r consecutive ticks with no setDelay or setPhase call (and no
\* phase change pending or applied) in between, a priority street is green in
\* exactly g ticks and red in exactly r; a non-priority street the reverse.
C6_GreenTicksPerCycle ==
  (m_delay.has /\ CycleLen > 0 /\ Len(greenLog) = CycleLen) =>
    /\ CountTrue(greenLog) = m_delay.first
    /\ Len(greenLog) - CountTrue(greenLog) = m_delay.second

\* C9: setPhase(p) leaves counter = p mod (g + r) and no pending phase.
C9_SetPhaseIsModulo ==
  (last.op = "setPhase" /\ last.err = "none" /\ CycleLen > 0) =>
    /\ m_counter = last.args[1] % CycleLen
    /\ m_phase = 0

\* C10: a tick that does not reach g + r adds one to the counter; the tick
\* that reaches g + r sets the counter to the pending phase p normalized into
\* [0, g + r) and consumes it, or to 0 when no phase is pending.
C10_WrapStep ==
  (last'.op = "increaseCounter" /\ last'.err = "none" /\ CycleLen > 0
     /\ m_counter < CycleLen) =>
    IF m_counter + 1 = CycleLen
      THEN /\ m_phase' = 0
           /\ ~pending.set => m_counter' = 0
           /\ (pending.set /\ pending.first = m_delay.first
                 /\ pending.second = m_delay.second) =>
                m_counter' = pending.p % CycleLen
      ELSE m_counter' = m_counter + 1

C10_PendingPhaseAtWrap == [][C10_WrapStep]_vars

\* C11: when a light that already has a delay, its counter inside the cycle,
\* is given a new delay (g', r') with g' + r' > 0 and counter >= g' + r', the
\* counter becomes g' + r' - 1;
\* for setDelay(d) the new delay is (d, d).
C11_NewGreen == last'.args[1]
C11_NewRed == IF last'.op = "setDelay" THEN last'.args[1] ELSE last'.args[2]

C11_ClampStep ==
  (last'.op \in {"setDelay", "setDelayPair"} /\ m_delay.has
     /\ m_counter < CycleLen
     /\ C11_NewGreen + C11_NewRed > 0
     /\ m_counter >= C11_NewGreen + C11_NewRed) =>
    m_counter' = C11_NewGreen + C11_NewRed - 1

C11_CounterClampedToNewCycle == [][C11_ClampStep]_vars

\* C12: when the new green g' is smaller than the old green g and the counter
\* is in [g', g] and below g' + r', setDelay sets the counter to
\* g' - (g - counter); when that difference is negative it is taken modulo
\* the cycle length, and the counter is a value inside the new cycle.
C12_Difference == C11_NewGreen - (m_delay.first - m_counter)

C12_ShiftStep ==
  (last'.op \in {"setDelay", "setDelayPair"} /\ m_delay.has
     /\ C11_NewGreen < m_delay.first
     /\ C11_NewGreen <= m_counter /\ m_counter <= m_delay.first
     /\ m_counter < C11_NewGreen + C11_NewRed) =>
    IF C12_Difference >= 0
      THEN m_counter' = C12_Difference
      ELSE /\ m_counter' < C11_NewGreen + C11_NewRed
           /\ \/ m_counter' = C12_Difference % (C11_NewGreen + C11_NewRed)
              \/ m_counter' = C12_Difference % CycleLen

C12_GreenShiftKeepsTicksLeft == [][C12_ShiftStep]_vars

\* C13: on a light whose delay has never been set, increaseCounter, setPhase,
\* isGreen() and isGreen(streetId) raise an error and leave the counter and
\* the pending phase unchanged.
C13_NoDelayStep ==
  (~m_delay.has
     /\ last'.op \in {"increaseCounter", "setPhase", "isGreen", "isGreenStreet"}) =>
    /\ last'.err = "runtime_error"
    /\ m_counter' = m_counter
    /\ m_phase' = m_phase

C13_NoDelayCallsRaise == [][C13_NoDelayStep]_vars

C13_Witness ==
  /\ ~m_delay.has
  /\ last.op = "isGreenStreet"
  /\ last.err = "runtime_error"
  /\ m_streetPriorities # {}

\* ------------------------------------------------------------------------
\* Node (Intersection)
\* ------------------------------------------------------------------------
\* unsigned arithmetic of the Size type
SizeT(x) == x % SizeMod

\* conversion of an integer to int16_t
toInt16(x) == ((x + 32768) % 65536) - 32768

\* a conversion of angle * 100 that goes to the nearest integer
angleKeyNearest(angle) ==
  toInt16(IF angle >= 0 THEN (angle + 5) \div 10 ELSE -((5 - angle) \div 10))

\* static_cast<int16_t>(angle * 100): the fraction is dropped, toward zero
\* (angle is given in thousandths of a radian)
angleKey(angle) ==
  toInt16(IF angle >= 0 THEN angle \div 10 ELSE -((-angle) \div 10))

\* an emplace that puts the entry before the entries of the same key
emplaceBeforeEqual(agents, key, agentId) ==
  LET k == Cardinality({i \in 1 .. Len(agents) : agents[i].key < key})
  IN SubSeq(agents, 1, k) \o <<[key |-> key, id |-> agentId]>>
       \o SubSeq(agents, k + 1, Len(agents))

\* std::multimap::emplace on m_agents: the entry goes behind every entry
\* whose key is not larger
emplace(agents, key, agentId) ==
  LET k == Cardinality({i \in 1 .. Len(agents) : agents[i].key <= key})
  IN SubSeq(agents, 1, k) \o <<[key |-> key, id |-> agentId]>>
       \o SubSeq(agents, k + 1, Len(agents))

\* "for (auto const [angle, id] : m_agents) if (id == agentId)"
holdsAgent(agents, agentId) ==
  \E i \in 1 .. Len(agents) : agents[i].id = agentId

\* bool Node::isFull() const
Node_isFull(agents, capacity) == Len(agents) = capacity

\* setCapacity without its test, as NodeConcept::setCapacity
setCapacityUnchecked(capacity, agents) == FALSE

\* the test of Node::setCapacity that throws
setCapacityRejected(capacity, agents) == capacity < Len(agents)

\* addAgent without the search for the agent id
addAgentRejectedFullOnly(agents, capacity, agentId) == Len(agents) = capacity

\* the tests of Node::addAgent (both overloads) that throw
addAgentRejected(agents, capacity, agentId) ==
  \/ Len(agents) = capacity
  \/ holdsAgent(agents, agentId)

\* the key Node::addAgent(Id) stores the agent under
addAgentLastKey(agents) ==
  toInt16(IF agents # <<>> THEN agents[Len(agents)].key + 1 ELSE 0)

\* an erase of the entry at m_agents.begin(), whatever its agent
removeFront(agents, agentId) == Tail(agents)

\* m_agents after the erase of Node::removeAgent: the first entry of agentId
removeFirst(agents, agentId) ==
  LET i == CHOOSE j \in 1 .. Len(agents) :
             /\ agents[j].id = agentId
             /\ \A h \in 1 .. (j - 1) : agents[h].id # agentId
  IN SubSeq(agents, 1, i - 1) \o SubSeq(agents, i + 1, Len(agents))

Node_frame ==
  /\ kind = "Intersection"
  /\ UNCHANGED <<kind, tlVars, rbVars, stVars, smVars>>

Node_setCapacity ==
  /\ Node_frame
  /\ \E capacity \in Sizes :
       IF setCapacityRejected(capacity, m_agents)
         THEN /\ last' = Call("setCapacity", <<capacity>>, <<>>, "runtime_error")
              /\ UNCHANGED nodeVars
         ELSE /\ m_capacity' = capacity
              /\ last' = Call("setCapacity", <<capacity>>, <<>>, "none")
              /\ UNCHANGED <<m_agents, m_agentCounter>>

Node_addAgent ==
  /\ Node_frame
  /\ \E angle \in AngleArgs, agentId \in AgentIds :
       IF addAgentRejected(m_agents, m_capacity, agentId)
         THEN /\ last' = Call("addAgent", <<angle, agentId>>, <<>>, "runtime_error")
              /\ UNCHANGED nodeVars
         ELSE /\ m_agents' = emplace(m_agents, angleKey(angle), agentId)
              /\ m_agentCounter' = SizeT(m_agentCounter + 1)
              /\ last' = Call("addAgent", <<angle, agentId>>, <<>>, "none")
              /\ UNCHANGED m_capacity

\* addAgent(angle, agentId) with an angle from WideAngleArgs
Node_addAgentWide ==
  /\ Node_frame
  /\ \E angle \in WideAngleArgs, agentId \in AgentIds :
       IF addAgentRejected(m_agents, m_capacity, agentId)
         THEN /\ last' = Call("addAgent", <<angle, agentId>>, <<>>, "runtime_error")
              /\ UNCHANGED nodeVars
         ELSE /\ m_agents' = emplace(m_agents, angleKey(angle), agentId)
              /\ m_agentCounter' = SizeT(m_agentCounter + 1)
              /\ last' = Call("addAgent", <<angle, agentId>>, <<>>, "none")
              /\ UNCHANGED m_capacity

Node_addAgentId ==
  /\ Node_frame
  /\ \E agentId \in AgentIds :
       IF addAgentRejected(m_agents, m_capacity, agentId)
         THEN /\ last' = Call("addAgentId", <<agentId>>, <<>>, "runtime_error")
              /\ UNCHANGED nodeVars
         ELSE /\ addAgentLastKey(m_agents) <= MaxKey
              /\ \/ addAgentLastKey(m_agents) >= -MaxKey
                 \/ addAgentLastKey(m_agents) <= MaxKey - 32768
              /\ m_agents' = emplace(m_agents, addAgentLastKey(m_agents), agentId)
              /\ m_agentCounter' = SizeT(m_agentCounter + 1)
              /\ last' = Call("addAgentId", <<agentId>>, <<>>, "none")
              /\ UNCHANGED m_capacity

Node_removeAgent ==
  /\ Node_frame
  /\ \E agentId \in AgentIds :
       IF holdsAgent(m_agents, agentId)
         THEN /\ m_agents' = removeFirst(m_agents, agentId)
              /\ last' = Call("removeAgent", <<agentId>>, <<>>, "none")
              /\ UNCHANGED <<m_capacity, m_agentCounter>>
         ELSE /\ last' = Call("removeAgent", <<agentId>>, <<>>, "runtime_error")
              /\ UNCHANGED nodeVars

Node_agentCounter ==
  /\ Node_frame
  /\ m_agentCounter' = 0
  /\ last' = Call("agentCounter", <<>>, <<m_agentCounter>>, "none")
  /\ UNCHANGED <<m_capacity, m_agents>>

\* ------------------------------------------------------------------------
\* Roundabout
\* ------------------------------------------------------------------------
\* dsm::queue<Id>: push, front and pop of a first-in-first-out queue
queue_push(q, x) == Append(q, x)
queue_front(q) == Head(q)
queue_pop(q) == Tail(q)

\* bool Roundabout::isFull() const
Roundabout_isFull(agents, capacity) == Len(agents) = capacity

\* the tests of Roundabout::enqueue that throw
enqueueRejected(agents, capacity, agentId) ==
  \/ Len(agents) = capacity
  \/ \E i \in 1 .. Len(agents) : agents[i] = agentId

\* dequeue taking the agent at the back of the queue
dequeueBack(agents) ==
  <<agents[Len(agents)], SubSeq(agents, 1, Len(agents) - 1)>>

\* the id Roundabout::dequeue returns and the queue it leaves
dequeueResult(agents) == <<queue_front(agents), queue_pop(agents)>>

Roundabout_frame ==
  /\ kind = "Roundabout"
  /\ UNCHANGED <<kind, tlVars, m_agents, m_agentCounter, stVars, smVars>>

\* Roundabout does not override setCapacity
NodeConcept_setCapacity ==
  /\ Roundabout_frame
  /\ \E capacity \in Sizes :
       /\ m_capacity' = capacity
       /\ last' = Call("setCapacity", <<capacity>>, <<>>, "none")
       /\ UNCHANGED rbVars

Roundabout_enqueue ==
  /\ Roundabout_frame
  /\ Len(enqLog) < MaxLog
  /\ \E agentId \in AgentIds :
       IF enqueueRejected(rb_agents, m_capacity, agentId)
         THEN /\ last' = Call("enqueue", <<agentId>>, <<>>, "runtime_error")
              /\ UNCHANGED <<m_capacity, rbVars>>
         ELSE /\ rb_agents' = queue_push(rb_agents, agentId)
              /\ enqLog' = Append(enqLog, agentId)
              /\ last' = Call("enqueue", <<agentId>>, <<>>, "none")
              /\ UNCHANGED <<m_capacity, deqLog>>

Roundabout_dequeue ==
  /\ Roundabout_frame
  /\ IF rb_agents = <<>>
       THEN /\ last' = Call("dequeue", <<>>, <<>>, "runtime_error")
            /\ UNCHANGED <<m_capacity, rbVars>>
       ELSE LET res == dequeueResult(rb_agents)
            IN /\ rb_agents' = res[2]
               /\ deqLog' = Append(deqLog, res[1])
               /\ last' = Call("dequeue", <<>>, <<res[1]>>, "none")
               /\ UNCHANGED <<m_capacity, enqLog>>

\* A node is built as a Node (Intersection) or as a Roundabout; the default
\* constructors and the constructor from a NodeConcept leave any capacity,
\* and no constructor of Node sets m_agentCounter.
InitNode ==
  /\ kind \in {"Intersection", "Roundabout"}
  /\ TrafficLight_Init
  /\ m_capacity \in Sizes
  /\ m_agents = <<>>
  /\ m_agentCounter \in (IF kind = "Intersection" THEN Sizes ELSE {0})
  /\ Roundabout_constructed
  /\ Street_constructed
  /\ SparseMatrix_constructed
  /\ last = Call(kind, <<>>, <<>>, "none")

NextNode ==
  \/ Node_setCapacity
  \/ Node_addAgent
  \/ Node_addAgentId
  \/ Node_removeAgent
  \/ Node_agentCounter
  \/ NodeConcept_setCapacity
  \/ Roundabout_enqueue
  \/ Roundabout_dequeue

SpecNode == InitNode /\ [][NextNode]_vars

\* a Node (Intersection) on which agents are put and removed
InitNodeAgents ==
  /\ InitNode
  /\ kind = "Intersection"

NextNodeAgents ==
  \/ Node_addAgent
  \/ Node_addAgentId
  \/ Node_removeAgent

SpecNodeAgents == InitNodeAgents /\ [][NextNodeAgents]_vars

\* an Intersection whose agents come with keys over the whole range of
\* int16_t
NextNodeKeys ==
  \/ Node_addAgentWide
  \/ Node_addAgentId
  \/ Node_removeAgent

SpecNodeKeys == InitNodeAgents /\ [][NextNodeKeys]_vars

\* ------------------------------------------------------------------------
\* Street
\* ------------------------------------------------------------------------
RECURSIVE SeqsUpTo(_, _)
SeqsUpTo(S, n) ==
  IF n = 0 THEN {<<>>}
  ELSE LET shorter == SeqsUpTo(S, n - 1)
       IN shorter \cup {Append(q, x) : q \in shorter, x \in S}

Street_frame ==
  /\ kind = "Street"
  /\ UNCHANGED <<kind, tlVars, nodeVars, rbVars, smVars>>

Street_setCapacity ==
  /\ Street_frame
  /\ \E capacity \in Sizes :
       /\ st_capacity' = capacity
       /\ last' = Call("setCapacity", <<capacity>>, <<>>, "none")
       /\ UNCHANGED <<st_size, st_queue>>

Street_setQueue ==
  /\ Street_frame
  /\ \E queue \in SeqsUpTo(AgentIds, MaxQueue) :
       /\ st_queue' = queue
       /\ last' = Call("setQueue", <<queue>>, <<>>, "none")
       /\ UNCHANGED <<st_size, st_capacity>>

\* Street(index, capacity) and Street(index, size, capacity): the capacity is
\* the argument, the queue is empty, and m_size is the argument or not set.
InitStreet ==
  /\ kind = "Street"
  /\ TrafficLight_Init
  /\ Node_constructed
  /\ Roundabout_constructed
  /\ st_size \in Sizes
  /\ st_capacity \in Sizes
  /\ st_queue = <<>>
  /\ SparseMatrix_constructed
  /\ last = Call("Street", <<>>, <<>>, "none")

NextStreet ==
  \/ Street_setCapacity
  \/ Street_setQueue

SpecStreet == InitStreet /\ [][NextStreet]_vars

\* ------------------------------------------------------------------------
\* Properties of Node, Roundabout and Street
\* ------------------------------------------------------------------------
\* an agent id that no node holds
NewAgent == MaxAgent + 1

\* C2: an Intersection never holds more agents than its capacity, and a
\* setCapacity below the number of agents held raises an error and leaves
\* the capacity as it was.
C2_WithinCapacity ==
  kind = "Intersection" => Len(m_agents) <= m_capacity

C2_SetCapacityStep ==
  (kind = "Intersection" /\ last'.op = "setCapacity" /\ last'.args[1] < Len(m_agents)) =>
    /\ last'.err = "runtime_error"
    /\ m_capacity' = m_capacity

C2_AgentsWithinCapacity == []C2_WithinCapacity /\ [][C2_SetCapacityStep]_vars

C2_Witness ==
  /\ kind = "Intersection"
  /\ last.op = "setCapacity"
  /\ last.err = "runtime_error"
  /\ Len(m_agents) = m_capacity
  /\ m_capacity >= 2

\* C3: a Roundabout never queues more agents than its capacity, and isFull()
\* holds exactly when the enqueue of a new agent is rejected for lack of room.
C3_RoundaboutWithinCapacity ==
  kind = "Roundabout" =>
    /\ Len(rb_agents) <= m_capacity
    /\ Roundabout_isFull(rb_agents, m_capacity)
         <=> enqueueRejected(rb_agents, m_capacity, NewAgent)

\* C4: a Street never holds more agents in its queue than its capacity.
C4_StreetWithinCapacity ==
  kind = "Street" => Len(st_queue) <= st_capacity

\* C7: adding an agent to a full node, adding an agent id the node holds,
\* removing an agent the node does not hold and dequeuing from an empty
\* roundabout each raise an error, and a call that raises an error leaves
\* the agents, their order, the capacity and the agentCounter as they were.
C7_RejectStep ==
  /\ (kind = "Intersection" /\ last'.op = "addAgent"
        /\ (Node_isFull(m_agents, m_capacity) \/ holdsAgent(m_agents, last'.args[2])))
       => last'.err = "runtime_error"
  /\ (kind = "Intersection" /\ last'.op = "addAgentId"
        /\ (Node_isFull(m_agents, m_capacity) \/ holdsAgent(m_agents, last'.args[1])))
       => last'.err = "runtime_error"
  /\ (kind = "Intersection" /\ last'.op = "removeAgent"
        /\ ~holdsAgent(m_agents, last'.args[1]))
       => last'.err = "runtime_error"
  /\ (kind = "Roundabout" /\ last'.op = "enqueue"
        /\ (Roundabout_isFull(rb_agents, m_capacity)
              \/ \E i \in 1 .. Len(rb_agents) : rb_agents[i] = last'.args[1]))
       => last'.err = "runtime_error"
  /\ (kind = "Roundabout" /\ last'.op = "dequeue" /\ rb_agents = <<>>)
       => last'.err = "runtime_error"
  /\ last'.err # "none"
       => UNCHANGED <<m_agents, m_capacity, m_agentCounter, rb_agents>>

C7_RejectedCallsChangeNothing == [][C7_RejectStep]_vars

C7_Witness ==
  /\ kind = "Intersection"
  /\ last.op = "addAgent"
  /\ last.err = "runtime_error"
  /\ m_agents # <<>>
  /\ Len(m_agents) < m_capacity

\* C8: the ids returned by dequeue are the ids whose enqueue succeeded, in
\* the order of the enqueues: what was enqueued is what was dequeued followed
\* by what is still queued.
C8_Fifo ==
  kind = "Roundabout" => enqLog = deqLog \o rb_agents

C8_Witness ==
  /\ kind = "Roundabout"
  /\ Len(deqLog) >= 2
  /\ Len(rb_agents) >= 2
  /\ last.op = "dequeue"
  /\ last.err = "none"


\* ------------------------------------------------------------------------
\* SparseMatrix
\* ------------------------------------------------------------------------
\* unsigned arithmetic of the Index type (an Index as wide as unsigned int
\* or wider, as in SparseMatrix<uint32_t, T>: no promotion to int)
IndexT(x) == x % IndexMod

\* std::unordered_map::contains
map_contains(matrix, key) == key \in DOMAIN matrix

\* std::unordered_map::insert_or_assign, emplace (an existing entry is kept)
\* and erase
map_insert_or_assign(matrix, key, value) ==
  [k \in DOMAIN matrix \cup {key} |-> IF k = key THEN value ELSE matrix[k]]

\* an emplace that replaces an existing entry
map_emplaceOverwrites(matrix, key, value) ==
  map_insert_or_assign(matrix, key, value)

map_emplace(matrix, key, value) ==
  IF map_contains(matrix, key) THEN matrix ELSE map_insert_or_assign(matrix, key, value)

map_erase(matrix, key) == [k \in DOMAIN matrix \ {key} |-> matrix[k]]

\* the outcome of a call: the members it leaves, what it returned and the
\* exception it raised
Done(matrix, rows, cols) ==
  [matrix |-> matrix, rows |-> rows, cols |-> cols, ret |-> <<>>, err |-> "none"]
Returned(matrix, rows, cols, ret) ==
  [matrix |-> matrix, rows |-> rows, cols |-> cols, ret |-> <<ret>>, err |-> "none"]
Thrown(matrix, rows, cols, err) ==
  [matrix |-> matrix, rows |-> rows, cols |-> cols, ret |-> <<>>, err |-> err]

\* void insert(Index i, T value)
insertIndex(matrix, rows, cols, i, value) ==
  IF i > IndexT(rows * cols - 1)
    THEN Thrown(matrix, rows, cols, "out_of_range")
    ELSE Done(map_emplace(matrix, i, value), rows, cols)

\* void insert(Index i, Index j, T value)
insert(matrix, rows, cols, i, j, value) ==
  insertIndex(matrix, rows, cols, IndexT(i * cols + j), value)

\* void insert_or_assign(Index index, T value)
insert_or_assignIndex(matrix, rows, cols, index, value) ==
  IF index > IndexT(rows * cols - 1)
    THEN Thrown(matrix, rows, cols, "out_of_range")
    ELSE Done(map_insert_or_assign(matrix, index, value), rows, cols)

\* void insert_or_assign(Index i, Index j, T value)
insert_or_assign(matrix, rows, cols, i, j, value) ==
  insert_or_assignIndex(matrix, rows, cols, IndexT(i * cols + j), value)

\* erase(i, j) without the test for a cell that holds no value
eraseUnchecked(matrix, rows, cols, i, j) ==
  IF i >= rows \/ j >= cols
    THEN Thrown(matrix, rows, cols, "out_of_range")
    ELSE Done(map_erase(matrix, IndexT(i * cols + j)), rows, cols)

\* void erase(Index i, Index j)
erase(matrix, rows, cols, i, j) ==
  IF i >= rows \/ j >= cols
    THEN Thrown(matrix, rows, cols, "out_of_range")
    ELSE IF ~map_contains(matrix, IndexT(i * cols + j))
           THEN Thrown(matrix, rows, cols, "runtime_error")
           ELSE Done(map_erase(matrix, IndexT(i * cols + j)), rows, cols)

\* void erase(Index index)
eraseIndex(matrix, rows, cols, index) ==
  IF index > IndexT(rows * cols - 1)
    THEN Thrown(matrix, rows, cols, "out_of_range")
    ELSE IF ~map_contains(matrix, index)
           THEN Thrown(matrix, rows, cols, "runtime_error")
           ELSE Done(map_erase(matrix, index), rows, cols)

\* the maps a loop "for (key, value) : matrix  new_matrix.emplace(newKey[key],
\* value)" can build: when two keys get the same new key, the one the
\* iteration meets first stays, and the order of iteration is not fixed
rekeyed(matrix, newKey) ==
  LET keys == {newKey[k] : k \in DOMAIN matrix}
      values == {matrix[k] : k \in DOMAIN matrix}
  IN {m \in [keys -> values] :
        \A nk \in keys : \E k \in DOMAIN matrix : newKey[k] = nk /\ m[nk] = matrix[k]}

\* void eraseRow(Index index); a division by a zero _cols ends the call
eraseRow(matrix, rows, cols, index) ==
  IF index > IndexT(rows - 1)
    THEN {Thrown(matrix, rows, cols, "out_of_range")}
    ELSE LET row == {IndexT(index * cols + i) : i \in 0 .. (cols - 1)}
             kept == [k \in DOMAIN matrix \ row |-> matrix[k]]
         IN IF cols = 0 /\ DOMAIN kept # {}
              THEN {Thrown(kept, rows, cols, "division_by_zero")}
              ELSE {Done(m, IndexT(rows - 1), cols) :
                      m \in rekeyed(kept, [key \in DOMAIN kept |->
                                            IF key \div cols < index
                                              THEN key
                                              ELSE IndexT(key - cols)])}

\* void eraseColumn(Index index); a division by a zero _cols ends the call
eraseColumn(matrix, rows, cols, index) ==
  IF index > IndexT(cols - 1)
    THEN {Thrown(matrix, rows, cols, "out_of_range")}
    ELSE LET column == {IndexT(i * cols + index) : i \in 0 .. (rows - 1)}
             kept == [k \in DOMAIN matrix \ column |-> matrix[k]]
         IN IF cols = 0 /\ DOMAIN kept # {}
              THEN {Thrown(kept, rows, cols, "division_by_zero")}
              ELSE {Done(m, rows, IndexT(cols - 1)) :
                      m \in rekeyed(kept, [key \in DOMAIN kept |->
                             IF key % cols < index
                               THEN IndexT(key - (key \div cols))
                               ELSE IndexT((key \div cols) * (cols - 1) + (key % cols) - 1)])}

\* void clear()
clear == Done(NoCells, 0, 0)

\* bool contains(Index const index) const
containsIndex(matrix, rows, cols, index) ==
  IF index > IndexT(rows * cols - 1)
    THEN Thrown(matrix, rows, cols, "out_of_range")
    ELSE Returned(matrix, rows, cols, map_contains(matrix, index))

\* const T& operator()(Index index) const, on a matrix whose _defaultReturn
\* holds default: an access to a cell that stores nothing gives _defaultReturn
atIndexOf(matrix, rows, cols, default, index) ==
  IF index >= IndexT(rows * cols)
    THEN Thrown(matrix, rows, cols, "out_of_range")
    ELSE Returned(matrix, rows, cols,
                  IF index \in DOMAIN matrix THEN matrix[index] ELSE default)

\* operator()(Index index) on a matrix whose _defaultReturn is as constructed
atIndex(matrix, rows, cols, index) ==
  atIndexOf(matrix, rows, cols, defaultReturn, index)

\* the loop of reshape(rows, cols) over a copy of the map, whose entries are
\* met in an order that is not fixed: each key is erased and, when it is below
\* rows * cols, stored again at its old coordinates under the new _cols;
\* an exception of insert_or_assign, or a division by a zero oldCols, ends the
\* loop where it is
RECURSIVE reshapeLoop(_, _, _, _, _, _)
reshapeLoop(matrix, copy, todo, oldCols, rows, cols) ==
  IF todo = {}
    THEN {Done(matrix, rows, cols)}
    ELSE UNION {
      LET erased == map_erase(matrix, key) IN
      IF key < IndexT(rows * cols)
        THEN IF oldCols = 0
               THEN {Thrown(erased, rows, cols, "division_by_zero")}
               ELSE LET res == insert_or_assign(erased, rows, cols,
                                                key \div oldCols, key % oldCols, copy[key])
                    IN IF res.err # "none"
                         THEN {res}
                         ELSE reshapeLoop(res.matrix, copy, todo \ {key}, oldCols, rows, cols)
        ELSE reshapeLoop(erased, copy, todo \ {key}, oldCols, rows, cols)
      : key \in todo}

\* void reshape(Index rows, Index cols)
reshape(matrix, oldCols, rows, cols) ==
  reshapeLoop(matrix, matrix, DOMAIN matrix, oldCols, rows, cols)

\* void reshape(Index index): a key below index is erased and stored again
\* under itself, any other key is erased
reshapeIndex(matrix, index) ==
  Done([k \in {key \in DOMAIN matrix : key < index} |-> matrix[k]], index, 1)

\* std::max
max(a, b) == IF a < b THEN b ELSE a

\* void insert_and_expand(Index i, Index j, T value)
insert_and_expand(matrix, rows, cols, i, j, value) ==
  LET grown ==
        IF i < rows /\ j < cols
          THEN {Done(matrix, rows, cols)}
          ELSE LET delta == max(IndexT(i - rows), IndexT(j - cols)) IN
               IF cols = 1
                 THEN LET d == IF IndexT(i + delta) < IndexT(rows + delta)
                                 THEN delta ELSE IndexT(delta + 1)
                      IN {reshapeIndex(matrix, IndexT(rows + d))}
                 ELSE LET d == IF IndexT(i * (cols + delta) + j)
                                    < IndexT((rows + delta) * (cols + delta))
                                 THEN delta ELSE IndexT(delta + 1)
                      IN reshape(matrix, cols, IndexT(rows + d), IndexT(cols + d))
  IN {IF g.err # "none"
        THEN g
        ELSE Done(map_insert_or_assign(g.matrix, IndexT(i * g.cols + j), value),
                  g.rows, g.cols)
      : g \in grown}

\* a call on a SparseMatrix leaves the other objects alone; a matrix is
\* followed while its dimensions are within MaxDim and every key it stores is
\* the index of one of its cells; on a matrix that was given with its cells
\* ("SparseMatrix call") one call is made
SparseMatrix_frame ==
  /\ \/ kind = "SparseMatrix"
     \/ kind = "SparseMatrix call" /\ last.op = "SparseMatrix"
  /\ _rows <= MaxDim
  /\ _cols <= MaxDim
  /\ \A key \in DOMAIN _matrix : key < _rows * _cols
  /\ UNCHANGED <<kind, tlVars, nodeVars, rbVars, stVars>>

\* the members and the record of the call after a call with outcome res; of
\* the arguments of an insert or insert_or_assign the record keeps whether
\* the cell they name held a value
SparseMatrix_call(op, args, res) ==
  /\ Cardinality(DOMAIN res.matrix) <= MaxCells
  /\ _matrix' = res.matrix
  /\ _rows' = res.rows
  /\ _cols' = res.cols
  /\ _defaultReturn' = _defaultReturn
  /\ last' = Call(op, args, res.ret, res.err)

SparseMatrix_insert ==
  /\ SparseMatrix_frame
  /\ \E i \in DimArgs, j \in DimArgs, value \in ValueArgs :
       SparseMatrix_call("insert", <<map_contains(_matrix, IndexT(i * _cols + j))>>,
                         insert(_matrix, _rows, _cols, i, j, value))

SparseMatrix_insertIndex ==
  /\ SparseMatrix_frame
  /\ \E i \in IndexArgs, value \in ValueArgs :
       SparseMatrix_call("insertIndex", <<map_contains(_matrix, i)>>,
                         insertIndex(_matrix, _rows, _cols, i, value))

SparseMatrix_insert_or_assign ==
  /\ SparseMatrix_frame
  /\ \E i \in DimArgs, j \in DimArgs, value \in ValueArgs :
       SparseMatrix_call("insert_or_assign", <<map_contains(_matrix, IndexT(i * _cols + j))>>,
                         insert_or_assign(_matrix, _rows, _cols, i, j, value))

SparseMatrix_insert_or_assignIndex ==
  /\ SparseMatrix_frame
  /\ \E index \in IndexArgs, value \in ValueArgs :
       SparseMatrix_call("insert_or_assignIndex", <<map_contains(_matrix, index)>>,
                         insert_or_assignIndex(_matrix, _rows, _cols, index, value))

SparseMatrix_insert_and_expand ==
  /\ SparseMatrix_frame
  /\ \E i \in DimArgs, j \in DimArgs, value \in ValueArgs :
       \E res \in insert_and_expand(_matrix, _rows, _cols, i, j, value) :
         SparseMatrix_call("insert_and_expand", <<>>, res)

SparseMatrix_erase ==
  /\ SparseMatrix_frame
  /\ \E i \in DimArgs, j \in DimArgs :
       SparseMatrix_call("erase", <<>>, erase(_matrix, _rows, _cols, i, j))

SparseMatrix_eraseIndex ==
  /\ SparseMatrix_frame
  /\ \E index \in IndexArgs :
       SparseMatrix_call("eraseIndex", <<>>, eraseIndex(_matrix, _rows, _cols, index))

SparseMatrix_eraseRow ==
  /\ SparseMatrix_frame
  /\ \E index \in DimArgs :
       \E res \in eraseRow(_matrix, _rows, _cols, index) :
         SparseMatrix_call("eraseRow", <<>>, res)

SparseMatrix_eraseColumn ==
  /\ SparseMatrix_frame
  /\ \E index \in DimArgs :
       \E res \in eraseColumn(_matrix, _rows, _cols, index) :
         SparseMatrix_call("eraseColumn", <<>>, res)

SparseMatrix_clear ==
  /\ SparseMatrix_frame
  /\ SparseMatrix_call("clear", <<>>, clear)

SparseMatrix_containsIndex ==
  /\ SparseMatrix_frame
  /\ \E index \in IndexArgs :
       SparseMatrix_call("containsIndex", <<>>, containsIndex(_matrix, _rows, _cols, index))

SparseMatrix_atIndex ==
  /\ SparseMatrix_frame
  /\ \E index \in IndexArgs :
       SparseMatrix_call("atIndex", <<>>,
                         atIndexOf(_matrix, _rows, _cols, _defaultReturn, index))

SparseMatrix_reshape ==
  /\ SparseMatrix_frame
  /\ \E rows \in ShapeArgs, cols \in ShapeArgs :
       \E res \in reshape(_matrix, _cols, rows, cols) :
         SparseMatrix_call("reshape", <<>>, res)

SparseMatrix_reshapeIndex ==
  /\ SparseMatrix_frame
  /\ \E index \in ShapeArgs :
       SparseMatrix_call("reshapeIndex", <<>>, reshapeIndex(_matrix, index))

\* SparseMatrix(), SparseMatrix(rows, cols) and SparseMatrix(index)
InitSM ==
  /\ kind = "SparseMatrix"
  /\ TrafficLight_Init
  /\ Node_constructed
  /\ Roundabout_constructed
  /\ Street_constructed
  /\ _matrix = NoCells
  /\ _rows \in DimArgs
  /\ _cols \in DimArgs
  /\ _defaultReturn = defaultReturn
  /\ last = Call("SparseMatrix", <<>>, <<>>, "none")

NextSM ==
  \/ SparseMatrix_insert
  \/ SparseMatrix_insertIndex
  \/ SparseMatrix_insert_or_assign
  \/ SparseMatrix_insert_or_assignIndex
  \/ SparseMatrix_insert_and_expand
  \/ SparseMatrix_erase
  \/ SparseMatrix_eraseIndex
  \/ SparseMatrix_eraseRow
  \/ SparseMatrix_eraseColumn
  \/ SparseMatrix_clear
  \/ SparseMatrix_containsIndex
  \/ SparseMatrix_atIndex
  \/ SparseMatrix_reshape
  \/ SparseMatrix_reshapeIndex

SpecSM == InitSM /\ [][NextSM]_vars

\* a matrix of any shape on which only the calls that write, erase or read
\* one cell are made
NextSMCells ==
  \/ SparseMatrix_insert
  \/ SparseMatrix_insertIndex
  \/ SparseMatrix_insert_or_assign
  \/ SparseMatrix_insert_or_assignIndex
  \/ SparseMatrix_erase
  \/ SparseMatrix_eraseIndex
  \/ SparseMatrix_containsIndex
  \/ SparseMatrix_atIndex

SpecSMCells == InitSM /\ [][NextSMCells]_vars


\* ------------------------------------------------------------------------
\* Properties of the SparseMatrix
\* ------------------------------------------------------------------------
\* C14: the linear-index forms of insert, insert_or_assign, erase, contains
\* and operator() raise OutOfRange for every index greater than
\* rows * cols - 1 and leave the matrix unchanged; on a matrix with zero rows
\* or zero columns every index is rejected.
C14_Rejected ==
  /\ last'.err = "out_of_range"
  /\ UNCHANGED smVars

C14_RejectStep ==
  \A index \in IndexArgs :
    (index > _rows * _cols - 1) =>
      /\ last'.op = "insertIndex" =>
           \A value \in ValueArgs :
             SparseMatrix_call("insertIndex", <<map_contains(_matrix, index)>>,
                               insertIndex(_matrix, _rows, _cols, index, value))
               => C14_Rejected
      /\ last'.op = "insert_or_assignIndex" =>
           \A value \in ValueArgs :
             SparseMatrix_call("insert_or_assignIndex", <<map_contains(_matrix, index)>>,
                               insert_or_assignIndex(_matrix, _rows, _cols, index, value))
               => C14_Rejected
      /\ SparseMatrix_call("eraseIndex", <<>>, eraseIndex(_matrix, _rows, _cols, index))
           => C14_Rejected
      /\ SparseMatrix_call("containsIndex", <<>>, containsIndex(_matrix, _rows, _cols, index))
           => C14_Rejected
      /\ SparseMatrix_call("atIndex", <<>>, atIndex(_matrix, _rows, _cols, index))
           => C14_Rejected

C14_IndexBeyondLastIsRejected == [][C14_RejectStep]_vars


\* cell (i, j) of a matrix with cols columns stores value
Stores(matrix, cols, i, j, value) ==
  /\ (i * cols + j) \in DOMAIN matrix
  /\ matrix[i * cols + j] = value

\* C15: after insert_and_expand(i, j, v), cell (i, j) is in range and reads v,
\* neither dimension is smaller than before, every cell stored before still
\* reads its old value at the same coordinates, and the dimensions are
\* unchanged when (i, j) was already in range.
C15_After(i, j, value) ==
  /\ last'.err = "none"
  /\ i < _rows' /\ j < _cols'
  /\ Stores(_matrix', _cols', i, j, value)
  /\ _rows' >= _rows /\ _cols' >= _cols
  /\ \A key \in DOMAIN _matrix :
       (key \div _cols # i \/ key % _cols # j) =>
         Stores(_matrix', _cols', key \div _cols, key % _cols, _matrix[key])
  /\ (i < _rows /\ j < _cols) => (_rows' = _rows /\ _cols' = _cols)

C15_ExpandStep ==
  last'.op = "insert_and_expand" =>
  \A i \in DimArgs, j \in DimArgs, value \in ValueArgs :
    \A res \in insert_and_expand(_matrix, _rows, _cols, i, j, value) :
      SparseMatrix_call("insert_and_expand", <<>>, res) => C15_After(i, j, value)

C15_InsertAndExpandGrows == [][C15_ExpandStep]_vars


\* C16: reshape(rows, cols) sets the dimensions to rows x cols, drops exactly
\* the cells whose old linear index is >= rows * cols, and stores every other
\* cell, with old coordinates (i, j) = (k div oldCols, k mod oldCols), at
\* linear index i * cols + j with its original value.
C16_After(rows, cols) ==
  /\ last'.err = "none"
  /\ _rows' = rows /\ _cols' = cols
  /\ DOMAIN _matrix' = {(key \div _cols) * cols + (key % _cols) :
                          key \in {k \in DOMAIN _matrix : k < rows * cols}}
  /\ \A key \in DOMAIN _matrix :
       key < rows * cols =>
         Stores(_matrix', cols, key \div _cols, key % _cols, _matrix[key])

C16_ReshapeStep ==
  last'.op = "reshape" =>
  \A rows \in ShapeArgs, cols \in ShapeArgs :
    \A res \in reshape(_matrix, _cols, rows, cols) :
      SparseMatrix_call("reshape", <<>>, res) => C16_After(rows, cols)

C16_ReshapeRekeysSurvivors == [][C16_ReshapeStep]_vars


\* C17: reshaping a matrix to (r, c) and then to (r', c') preserves every cell
\* whose encoding is in range under both shapes: such a cell (i, j) reads
\* the same value at (i, j) after the two reshapes as before them.
C17_InRange(i, j, oldIndex, rows, cols) ==
  /\ i < rows /\ j < cols
  /\ oldIndex < rows * cols

C17_AfterSecond(rows, cols, res) ==
  \A key \in DOMAIN _matrix :
    LET i == key \div _cols
        j == key % _cols
    IN (C17_InRange(i, j, key, rows, cols)
          /\ C17_InRange(i, j, i * cols + j, res.rows, res.cols)) =>
         Stores(res.matrix, res.cols, i, j, _matrix[key])

C17_ReshapeTwiceStep ==
  last'.op = "reshape" =>
  \A rows \in ShapeArgs, cols \in ShapeArgs :
    \A first \in reshape(_matrix, _cols, rows, cols) :
      SparseMatrix_call("reshape", <<>>, first) =>
        \A rows2 \in ShapeArgs, cols2 \in ShapeArgs :
          \A second \in reshape(_matrix', _cols', rows2, cols2) :
            C17_AfterSecond(rows, cols, second)

C17_ReshapeTwicePreserves == [][C17_ReshapeTwiceStep]_vars


\* C18: eraseRow(r) on an R x C matrix yields an (R-1) x C matrix in which
\* each old cell (i, j) is found with its value at (i, j) when i < r and at
\* (i-1, j) when i > r, and the cells of row r are gone; eraseColumn(c) yields
\* R x (C-1) with old (i, j) at (i, j) when j < c and at (i, j-1) when j > c;
\* an index >= the corresponding dimension (also on a matrix with zero rows
\* or zero columns) raises OutOfRange and changes nothing.
C18_AfterRow(r) ==
  IF r >= _rows
    THEN last'.err = "out_of_range" /\ UNCHANGED smVars
    ELSE /\ last'.err = "none"
         /\ _rows' = _rows - 1 /\ _cols' = _cols
         /\ \A key \in DOMAIN _matrix :
              LET i == key \div _cols
                  j == key % _cols
              IN /\ i < r => Stores(_matrix', _cols', i, j, _matrix[key])
                 /\ i > r => Stores(_matrix', _cols', i - 1, j, _matrix[key])
         /\ Cardinality(DOMAIN _matrix') =
              Cardinality({key \in DOMAIN _matrix : key \div _cols # r})

C18_AfterColumn(c) ==
  IF c >= _cols
    THEN last'.err = "out_of_range" /\ UNCHANGED smVars
    ELSE /\ last'.err = "none"
         /\ _rows' = _rows /\ _cols' = _cols - 1
         /\ \A key \in DOMAIN _matrix :
              LET i == key \div _cols
                  j == key % _cols
              IN /\ j < c => Stores(_matrix', _cols', i, j, _matrix[key])
                 /\ j > c => Stores(_matrix', _cols', i, j - 1, _matrix[key])
         /\ Cardinality(DOMAIN _matrix') =
              Cardinality({key \in DOMAIN _matrix : key % _cols # c})

C18_EraseLineStep ==
  \A index \in DimArgs :
    /\ last'.op = "eraseRow" =>
         \A res \in eraseRow(_matrix, _rows, _cols, index) :
           SparseMatrix_call("eraseRow", <<>>, res) => C18_AfterRow(index)
    /\ last'.op = "eraseColumn" =>
         \A res \in eraseColumn(_matrix, _rows, _cols, index) :
           SparseMatrix_call("eraseColumn", <<>>, res) => C18_AfterColumn(index)

C18_EraseRowColumnShift == [][C18_EraseLineStep]_vars


\* the matrix after the call differs from the one before in at most the
\* entry of key
OnlyKeyChanges(key) ==
  /\ _rows' = _rows /\ _cols' = _cols
  /\ DOMAIN _matrix' \ {key} = DOMAIN _matrix \ {key}
  /\ \A k \in DOMAIN _matrix \ {key} : _matrix'[k] = _matrix[k]

\* C19: insert on a cell that already holds a stored value fails and leaves
\* that value (and the matrix) unchanged, whereas insert_or_assign on the same
\* cell replaces the stored value with the new one; on an empty in-range cell
\* both store the given value.
C19_AfterInsert(key, value) ==
  IF map_contains(_matrix, key)
    THEN UNCHANGED smVars
    ELSE /\ last'.err = "none"
         /\ OnlyKeyChanges(key)
         /\ map_contains(_matrix', key) /\ _matrix'[key] = value

C19_AfterInsertOrAssign(key, value) ==
  /\ last'.err = "none"
  /\ OnlyKeyChanges(key)
  /\ map_contains(_matrix', key) /\ _matrix'[key] = value

C19_InsertStep ==
  \A i \in DimArgs, j \in DimArgs :
    (i < _rows /\ j < _cols) =>
      LET key == i * _cols + j IN
      /\ last'.op = "insert" =>
           \A value \in ValueArgs :
             SparseMatrix_call("insert", <<map_contains(_matrix, key)>>,
                               insert(_matrix, _rows, _cols, i, j, value))
               => C19_AfterInsert(key, value)
      /\ last'.op = "insertIndex" =>
           \A value \in ValueArgs :
             SparseMatrix_call("insertIndex", <<map_contains(_matrix, key)>>,
                               insertIndex(_matrix, _rows, _cols, key, value))
               => C19_AfterInsert(key, value)
      /\ last'.op = "insert_or_assign" =>
           \A value \in ValueArgs :
             SparseMatrix_call("insert_or_assign", <<map_contains(_matrix, key)>>,
                               insert_or_assign(_matrix, _rows, _cols, i, j, value))
               => C19_AfterInsertOrAssign(key, value)
      /\ last'.op = "insert_or_assignIndex" =>
           \A value \in ValueArgs :
             SparseMatrix_call("insert_or_assignIndex", <<map_contains(_matrix, key)>>,
                               insert_or_assignIndex(_matrix, _rows, _cols, key, value))
               => C19_AfterInsertOrAssign(key, value)

C19_InsertKeepsAssignReplaces == [][C19_InsertStep]_vars

\* an insert on a cell that held a value has returned, on a matrix that
\* stores two different values
C19_Witness ==
  /\ kind = "SparseMatrix"
  /\ last.op = "insert"
  /\ last.args = <<TRUE>>
  /\ last.err = "none"
  /\ \E k1 \in DOMAIN _matrix, k2 \in DOMAIN _matrix : _matrix[k1] # _matrix[k2]

\* C20: erase(i, j) and erase(index) on an in-range cell that holds no stored
\* value raise NotFound and leave the matrix unchanged; on a stored cell they
\* remove exactly that cell and leave the dimensions and every other cell
\* unchanged.
C20_AfterErase(key) ==
  IF map_contains(_matrix, key)
    THEN /\ last'.err = "none"
         /\ OnlyKeyChanges(key)
         /\ ~map_contains(_matrix', key)
    ELSE /\ last'.err = "runtime_error"
         /\ UNCHANGED smVars

C20_EraseStep ==
  last'.op \in {"erase", "eraseIndex"} =>
    \A i \in DimArgs, j \in DimArgs :
      (i < _rows /\ j < _cols) =>
        LET key == i * _cols + j IN
        /\ SparseMatrix_call("erase", <<>>, erase(_matrix, _rows, _cols, i, j))
             => C20_AfterErase(key)
        /\ SparseMatrix_call("eraseIndex", <<>>, eraseIndex(_matrix, _rows, _cols, key))
             => C20_AfterErase(key)

C20_EraseRemovesOneCell == [][C20_EraseStep]_vars

\* an erase has found no value in the cell it names, on a matrix that stores
\* a value elsewhere
C20_Witness ==
  /\ kind = "SparseMatrix"
  /\ last.op = "erase"
  /\ last.err = "runtime_error"
  /\ DOMAIN _matrix # {}

\* C21: insert(i, j, value) and insert_or_assign(i, j, value) with i >= rows
\* or j >= cols raise out_of_range and leave the matrix as it was, so that no
\* call writes a cell other than the one its two indices name (stated for the
\* matrices that have at least one cell, where rows * cols - 1 does not wrap)
C21_Rejected ==
  /\ last'.err = "out_of_range"
  /\ UNCHANGED smVars

C21_CoordinateStep ==
  last'.op \in {"insert", "insert_or_assign"} =>
    \A i \in DimArgs, j \in DimArgs, value \in ValueArgs :
      (_rows * _cols > 0 /\ (i >= _rows \/ j >= _cols)) =>
        LET held == <<map_contains(_matrix, IndexT(i * _cols + j))>> IN
        /\ SparseMatrix_call("insert", held, insert(_matrix, _rows, _cols, i, j, value))
             => C21_Rejected
        /\ SparseMatrix_call("insert_or_assign", held,
                             insert_or_assign(_matrix, _rows, _cols, i, j, value))
             => C21_Rejected

C21_CoordinateBeyondDimensionIsRejected == [][C21_CoordinateStep]_vars


\* ------------------------------------------------------------------------
\* SparseMatrix: arithmetic, transposition and the queries on one cell
\* ------------------------------------------------------------------------
\* a matrix that is not the object the calls are made on: the other operand
\* of a sum, or the matrix a call returns
Matrix(matrix, rows, cols) == [matrix |-> matrix, rows |-> rows, cols |-> cols]

\* the values of T the matrices are followed with (T a signed number type)
Values == -2 .. 2

\* the matrices of up to MaxOperandCells cells that are given as the other
\* operand: every key is the index of a cell
MaxOperandCells == 1

OperandCells(n) ==
  UNION {[S -> ValueArgs] : S \in {S \in SUBSET (0 .. n - 1) : Cardinality(S) <= MaxOperandCells}}

Operands ==
  UNION {{Matrix(cells, rows, cols) : cells \in OperandCells(rows * cols)}
         : rows \in DimArgs, cols \in DimArgs}

\* bool contains(Index i, Index j) const
contains(matrix, rows, cols, i, j) ==
  IF i >= rows \/ j >= cols
    THEN Thrown(matrix, rows, cols, "out_of_range")
    ELSE Returned(matrix, rows, cols, map_contains(matrix, IndexT(i * cols + j)))

\* Index size() const
size(matrix, rows, cols) == Returned(matrix, rows, cols, Cardinality(DOMAIN matrix))

\* const T& operator()(Index i, Index j) const, on a matrix whose
\* _defaultReturn holds default
atOf(matrix, rows, cols, default, i, j) ==
  IF i >= rows \/ j >= cols
    THEN Thrown(matrix, rows, cols, "out_of_range")
    ELSE LET key == IndexT(i * cols + j) IN
         Returned(matrix, rows, cols,
                  IF key \in DOMAIN matrix THEN matrix[key] ELSE default)

\* operator()(Index i, Index j) on a matrix whose _defaultReturn is as
\* constructed
at(matrix, rows, cols, i, j) == atOf(matrix, rows, cols, defaultReturn, i, j)

\* the loop of operator+ (sign 1) and operator- (sign -1) over the keys of
\* both operands; every key is visited once and written to its own cell of
\* result, so the order of the visits does not show
RECURSIVE sumLoop(_, _, _, _, _, _, _)
sumLoop(result, unique, matrix, rows, cols, other, sign) ==
  IF unique = {}
    THEN Returned(matrix, rows, cols, result)
    ELSE
      LET key == CHOOSE k \in unique : TRUE
          a == atIndex(matrix, rows, cols, key)
          b == atIndex(other.matrix, other.rows, other.cols, key)
      IN  IF a.err # "none" \/ b.err # "none"
            THEN Thrown(matrix, rows, cols, "out_of_range")
            ELSE
              LET r == insert(result.matrix, result.rows, result.cols,
                              key \div cols, key % cols, a.ret[1] + sign * b.ret[1])
              IN  IF r.err # "none"
                    THEN Thrown(matrix, rows, cols, r.err)
                    ELSE sumLoop(Matrix(r.matrix, r.rows, r.cols), unique \ {key},
                                 matrix, rows, cols, other, sign)

\* SparseMatrix operator+(const SparseMatrix& other)
operatorPlus(matrix, rows, cols, other) ==
  IF rows # other.rows \/ cols # other.cols
    THEN Thrown(matrix, rows, cols, "runtime_error")
    ELSE sumLoop(Matrix(NoCells, rows, cols), DOMAIN matrix \cup DOMAIN other.matrix,
                 matrix, rows, cols, other, 1)

\* SparseMatrix operator-(const SparseMatrix& other)
operatorMinus(matrix, rows, cols, other) ==
  IF rows # other.rows \/ cols # other.cols
    THEN Thrown(matrix, rows, cols, "runtime_error")
    ELSE sumLoop(Matrix(NoCells, rows, cols), DOMAIN matrix \cup DOMAIN other.matrix,
                 matrix, rows, cols, other, -1)

\* the loop of operator+= (sign 1) and operator-= (sign -1) over the entries
\* of other, each written to its own key of the matrix
RECURSIVE assignLoop(_, _, _, _, _, _)
assignLoop(matrix, rows, cols, other, todo, sign) ==
  IF todo = {}
    THEN Done(matrix, rows, cols)
    ELSE
      LET key == CHOOSE k \in todo : TRUE
          held == containsIndex(matrix, rows, cols, key)
          a == atIndex(matrix, rows, cols, key)
          r == IF held.ret[1]
                 THEN IF a.err # "none"
                        THEN a
                        ELSE insert_or_assignIndex(matrix, rows, cols, key,
                                                   a.ret[1] + sign * other.matrix[key])
                 ELSE insertIndex(matrix, rows, cols, key, sign * other.matrix[key])
      IN  IF held.err # "none"
            THEN held
            ELSE IF r.err # "none"
                   THEN r
                   ELSE assignLoop(r.matrix, rows, cols, other, todo \ {key}, sign)

\* an operator+= that makes no test of the dimensions
operatorPlusAssignUnchecked(matrix, rows, cols, other) ==
  assignLoop(matrix, rows, cols, other, DOMAIN other.matrix, 1)

\* SparseMatrix& operator+=(const SparseMatrix& other)
operatorPlusAssign(matrix, rows, cols, other) ==
  IF rows # other.rows \/ cols # other.cols
    THEN Thrown(matrix, rows, cols, "runtime_error")
    ELSE assignLoop(matrix, rows, cols, other, DOMAIN other.matrix, 1)

\* SparseMatrix& operator-=(const SparseMatrix& other)
operatorMinusAssign(matrix, rows, cols, other) ==
  IF rows # other.rows \/ cols # other.cols
    THEN Thrown(matrix, rows, cols, "runtime_error")
    ELSE assignLoop(matrix, rows, cols, other, DOMAIN other.matrix, -1)

\* the loop of operator++ over the cells of the matrix, each written to the
\* mirrored cell of transpost
RECURSIVE transposeLoop(_, _, _, _, _)
transposeLoop(transpost, todo, matrix, rows, cols) ==
  IF todo = {}
    THEN Returned(matrix, rows, cols, transpost)
    ELSE
      LET key == CHOOSE k \in todo : TRUE
          r == insert(transpost.matrix, transpost.rows, transpost.cols,
                      key % cols, key \div cols, matrix[key])
      IN  IF r.err # "none"
            THEN Thrown(matrix, rows, cols, r.err)
            ELSE transposeLoop(Matrix(r.matrix, r.rows, r.cols), todo \ {key},
                               matrix, rows, cols)

\* SparseMatrix operator++(): the transposed matrix
operatorIncrement(matrix, rows, cols) ==
  transposeLoop(Matrix(NoCells, cols, rows), DOMAIN matrix, matrix, rows, cols)

\* a symmetrize that adds the matrix itself in place of its transposed
symmetrizeSelf(matrix, rows, cols) ==
  operatorPlusAssign(matrix, rows, cols, Matrix(matrix, cols, rows))

\* void symmetrize()
symmetrize(matrix, rows, cols) ==
  LET transpost == operatorIncrement(matrix, rows, cols) IN
  IF transpost.err # "none"
    THEN transpost
    ELSE operatorPlusAssign(matrix, rows, cols, transpost.ret[1])

\* through a sequence of calls a matrix is followed while the values it
\* holds are within Values
SparseMatrix_followed(res) ==
  kind = "SparseMatrix" => \A key \in DOMAIN res.matrix : res.matrix[key] \in Values

SparseMatrix_contains ==
  /\ SparseMatrix_frame
  /\ \E i \in DimArgs, j \in DimArgs :
       SparseMatrix_call("contains", <<i, j>>, contains(_matrix, _rows, _cols, i, j))

SparseMatrix_size ==
  /\ SparseMatrix_frame
  /\ SparseMatrix_call("size", <<>>, size(_matrix, _rows, _cols))

SparseMatrix_at ==
  /\ SparseMatrix_frame
  /\ \E i \in DimArgs, j \in DimArgs :
       SparseMatrix_call("at", <<i, j>>, atOf(_matrix, _rows, _cols, _defaultReturn, i, j))

SparseMatrix_operatorPlus ==
  /\ SparseMatrix_frame
  /\ \E other \in Operands :
       SparseMatrix_call("operatorPlus", <<other>>, operatorPlus(_matrix, _rows, _cols, other))

SparseMatrix_operatorMinus ==
  /\ SparseMatrix_frame
  /\ \E other \in Operands :
       SparseMatrix_call("operatorMinus", <<other>>, operatorMinus(_matrix, _rows, _cols, other))

SparseMatrix_operatorPlusAssign ==
  /\ SparseMatrix_frame
  /\ \E other \in Operands :
       LET res == operatorPlusAssign(_matrix, _rows, _cols, other) IN
       /\ SparseMatrix_followed(res)
       /\ SparseMatrix_call("operatorPlusAssign", <<other>>, res)

SparseMatrix_operatorMinusAssign ==
  /\ SparseMatrix_frame
  /\ \E other \in Operands :
       LET res == operatorMinusAssign(_matrix, _rows, _cols, other) IN
       /\ SparseMatrix_followed(res)
       /\ SparseMatrix_call("operatorMinusAssign", <<other>>, res)

SparseMatrix_operatorIncrement ==
  /\ SparseMatrix_frame
  /\ SparseMatrix_call("operatorIncrement", <<>>, operatorIncrement(_matrix, _rows, _cols))

SparseMatrix_symmetrize ==
  /\ SparseMatrix_frame
  /\ LET res == symmetrize(_matrix, _rows, _cols) IN
     /\ SparseMatrix_followed(res)
     /\ SparseMatrix_call("symmetrize", <<>>, res)

\* the matrices of up to MaxCells cells, every key the index of a cell, that
\* a sequence of insert, operator+= and operator-= calls builds with the
\* given values
Receivers(values) ==
  UNION {{Matrix(cells, rows, cols)
          : cells \in UNION {[S -> values] : S \in {S \in SUBSET (0 .. rows * cols - 1)
                                                   : Cardinality(S) <= MaxCells}}}
         : rows \in DimArgs, cols \in DimArgs}

\* a matrix given with its cells
SparseMatrix_given(m) ==
  /\ kind = "SparseMatrix call"
  /\ TrafficLight_Init
  /\ Node_constructed
  /\ Roundabout_constructed
  /\ Street_constructed
  /\ _matrix = m.matrix
  /\ _rows = m.rows
  /\ _cols = m.cols
  /\ _defaultReturn = defaultReturn
  /\ last = Call("SparseMatrix", <<>>, <<>>, "none")

InitSMSum == \E m \in Receivers(ValueArgs) : SparseMatrix_given(m)

\* one sum, difference or transposition of a matrix given with its cells
NextSMSum ==
  \/ SparseMatrix_operatorPlus
  \/ SparseMatrix_operatorMinus
  \/ SparseMatrix_operatorPlusAssign
  \/ SparseMatrix_operatorMinusAssign
  \/ SparseMatrix_operatorIncrement
  \/ SparseMatrix_symmetrize

SpecSMSum == InitSMSum /\ [][NextSMSum]_vars

\* a matrix of any shape that is filled cell by cell and by sums and
\* differences with other matrices
NextSMStored ==
  \/ SparseMatrix_insert
  \/ SparseMatrix_insert_or_assign
  \/ SparseMatrix_erase
  \/ SparseMatrix_operatorPlusAssign
  \/ SparseMatrix_operatorMinusAssign
  \/ SparseMatrix_contains
  \/ SparseMatrix_size
  \/ SparseMatrix_at

SpecSMStored == InitSM /\ [][NextSMStored]_vars

\* m(i, j) = value: an assignment through the reference the non-const
\* T& operator()(Index i, Index j) returns, which is the stored value of the
\* cell, or _defaultReturn for a cell that stores nothing
SparseMatrix_assign ==
  /\ SparseMatrix_frame
  /\ \E i \in DimArgs, j \in DimArgs, value \in ValueArgs :
       LET key == IndexT(i * _cols + j) IN
       IF i >= _rows \/ j >= _cols
         THEN /\ last' = Call("assign", <<i, j, value>>, <<>>, "out_of_range")
              /\ UNCHANGED smVars
         ELSE /\ last' = Call("assign", <<i, j, value>>, <<>>, "none")
              /\ IF map_contains(_matrix, key)
                   THEN /\ _matrix' = map_insert_or_assign(_matrix, key, value)
                        /\ UNCHANGED <<_rows, _cols, _defaultReturn>>
                   ELSE /\ _defaultReturn' = value
                        /\ UNCHANGED <<_matrix, _rows, _cols>>

\* a matrix of any shape whose cells are written by insert and through the
\* references operator() returns, erased and read
NextSMRef ==
  \/ SparseMatrix_insert
  \/ SparseMatrix_erase
  \/ SparseMatrix_assign
  \/ SparseMatrix_at
  \/ SparseMatrix_atIndex

SpecSMRef == InitSM /\ [][NextSMRef]_vars


\* ------------------------------------------------------------------------
\* SparseMatrix: rows, columns, degrees and norms
\* ------------------------------------------------------------------------
\* the loop of getRow and getCol over the cells of one row or column, each
\* inserted into line under the key newKey gives it
RECURSIVE lineLoop(_, _, _, _, _, _)
lineLoop(line, todo, newKey, matrix, rows, cols) ==
  IF todo = {}
    THEN Returned(matrix, rows, cols, line)
    ELSE
      LET key == CHOOSE k \in todo : TRUE
          r == insertIndex(line.matrix, line.rows, line.cols, newKey[key], matrix[key])
      IN  IF r.err # "none"
            THEN Thrown(matrix, rows, cols, r.err)
            ELSE lineLoop(Matrix(r.matrix, r.rows, r.cols), todo \ {key}, newKey,
                          matrix, rows, cols)

\* the matrix getRow and getCol start from: SparseMatrix(lineRows, lineCols),
\* reshaped to rows x cols when the indices are kept
emptyLine(lineRows, lineCols, rows, cols, keepIndex) ==
  IF keepIndex
    THEN LET r == CHOOSE res \in reshape(NoCells, lineCols, rows, cols) : TRUE
         IN  Matrix(r.matrix, r.rows, r.cols)
    ELSE Matrix(NoCells, lineRows, lineCols)

\* a getRow that takes the cells of the column of that index
getRowOfColumn(matrix, rows, cols, index, keepIndex) ==
  IF index >= rows
    THEN Thrown(matrix, rows, cols, "out_of_range")
    ELSE
      LET todo == {key \in DOMAIN matrix : key % cols = index} IN
      lineLoop(emptyLine(1, cols, rows, cols, keepIndex), todo,
               [key \in todo |-> IF keepIndex THEN key ELSE key % cols],
               matrix, rows, cols)

\* SparseMatrix getRow(Index index, bool keepIndex = false) const
getRow(matrix, rows, cols, index, keepIndex) ==
  IF index >= rows
    THEN Thrown(matrix, rows, cols, "out_of_range")
    ELSE
      LET todo == {key \in DOMAIN matrix : key \div cols = index} IN
      lineLoop(emptyLine(1, cols, rows, cols, keepIndex), todo,
               [key \in todo |-> IF keepIndex THEN key ELSE key % cols],
               matrix, rows, cols)

\* SparseMatrix getCol(Index index, bool keepIndex = false) const
getCol(matrix, rows, cols, index, keepIndex) ==
  IF index >= cols
    THEN Thrown(matrix, rows, cols, "out_of_range")
    ELSE
      LET todo == {key \in DOMAIN matrix : key % cols = index} IN
      lineLoop(emptyLine(rows, 1, rows, cols, keepIndex), todo,
               [key \in todo |-> IF keepIndex THEN key ELSE key \div cols],
               matrix, rows, cols)

\* _matrix.erase(key) for every key of a set
map_eraseAll(matrix, keys) == [k \in DOMAIN matrix \ keys |-> matrix[k]]

\* an emptyRow that erases from the row before
emptyRowAbove(matrix, rows, cols, index) ==
  LET row == getRow(matrix, rows, cols, index, FALSE) IN
  IF row.err # "none"
    THEN row
    ELSE Done(map_eraseAll(matrix, {IndexT((index - 1) * cols + x) : x \in DOMAIN row.ret[1].matrix}),
              rows, cols)

\* void emptyRow(Index index)
emptyRow(matrix, rows, cols, index) ==
  LET row == getRow(matrix, rows, cols, index, FALSE) IN
  IF row.err # "none"
    THEN Thrown(matrix, rows, cols, row.err)
    ELSE Done(map_eraseAll(matrix, {IndexT(index * cols + x) : x \in DOMAIN row.ret[1].matrix}),
              rows, cols)

\* void emptyColumn(Index index)
emptyColumn(matrix, rows, cols, index) ==
  LET col == getCol(matrix, rows, cols, index, FALSE) IN
  IF col.err # "none"
    THEN Thrown(matrix, rows, cols, col.err)
    ELSE Done(map_eraseAll(matrix, {IndexT(x * cols + index) : x \in DOMAIN col.ret[1].matrix}),
              rows, cols)

\* the loop of getDegreeVector (weight 1 for every cell) and getStrengthVector
\* (weight the value of the cell): the entry of the row of each stored cell
\* grows by the weight of the cell
RECURSIVE vectorLoop(_, _, _, _, _, _)
vectorLoop(vector, todo, weight, matrix, rows, cols) ==
  IF todo = {}
    THEN Returned(matrix, rows, cols, vector)
    ELSE
      LET key == CHOOSE k \in todo : TRUE
          entry == at(vector.matrix, vector.rows, vector.cols, key \div cols, 0)
          r == insert_or_assign(vector.matrix, vector.rows, vector.cols, key \div cols, 0,
                                entry.ret[1] + weight[key])
      IN  IF entry.err # "none"
            THEN Thrown(matrix, rows, cols, entry.err)
            ELSE IF r.err # "none"
                   THEN Thrown(matrix, rows, cols, r.err)
                   ELSE vectorLoop(Matrix(r.matrix, r.rows, r.cols), todo \ {key}, weight,
                                   matrix, rows, cols)

\* SparseMatrix<Index, int> getDegreeVector() const
getDegreeVector(matrix, rows, cols) ==
  IF rows # cols
    THEN Thrown(matrix, rows, cols, "runtime_error")
    ELSE vectorLoop(Matrix(NoCells, rows, 1), DOMAIN matrix, [key \in DOMAIN matrix |-> 1],
                    matrix, rows, cols)

\* SparseMatrix<Index, double> getStrengthVector() const
getStrengthVector(matrix, rows, cols) ==
  IF rows # cols
    THEN Thrown(matrix, rows, cols, "runtime_error")
    ELSE vectorLoop(Matrix(NoCells, rows, 1), DOMAIN matrix, matrix, matrix, rows, cols)

\* SparseMatrix<Index, int> getLaplacian() const: -1 under the key of every
\* stored cell, then the degree of row i under the key of (i, i)
getLaplacian(matrix, rows, cols) ==
  IF rows # cols
    THEN Thrown(matrix, rows, cols, "runtime_error")
    ELSE
      LET degreeVector == getDegreeVector(matrix, rows, cols).ret[1]
          diagonal == {IndexT(i * cols + i) : i \in 0 .. rows - 1}
      IN  Returned(matrix, rows, cols,
                   Matrix([key \in {IndexT((k \div cols) * cols + (k % cols)) : k \in DOMAIN matrix}
                                     \cup diagonal |->
                             IF key \in diagonal
                               THEN at(degreeVector.matrix, degreeVector.rows, degreeVector.cols,
                                       key \div cols, 0).ret[1]
                               ELSE -1],
                          rows, cols))

\* a double that is the quotient of two whole numbers, the divisor positive:
\* the fraction in lowest terms
RECURSIVE gcd(_, _)
gcd(a, b) == IF b = 0 THEN a ELSE gcd(b, a % b)

abs(x) == IF x < 0 THEN -x ELSE x

Quotient(n, d) ==
  LET g == gcd(abs(n), d) IN [num |-> n \div g, den |-> d \div g]

\* sum += std::abs(it.second) over the cells of a line
RECURSIVE sumAbs(_, _)
sumAbs(cells, todo) ==
  IF todo = {}
    THEN 0
    ELSE LET key == CHOOSE k \in todo : TRUE
         IN  abs(cells[key]) + sumAbs(cells, todo \ {key})

\* the loop of getNormRows (byRow) and getNormCols over the rows or columns
\* from index on: the cells of the line, divided by the sum of their absolute
\* values (by 1 when the sum is below epsilon), are inserted into norm
RECURSIVE normLoop(_, _, _, _, _, _)
normLoop(norm, index, byRow, matrix, rows, cols) ==
  IF index >= (IF byRow THEN rows ELSE cols)
    THEN Returned(matrix, rows, cols, norm)
    ELSE
      LET line == IF byRow THEN getRow(matrix, rows, cols, index, TRUE)
                           ELSE getCol(matrix, rows, cols, index, TRUE)
      IN  IF line.err # "none"
            THEN Thrown(matrix, rows, cols, line.err)
            ELSE
              LET cells == line.ret[1].matrix
                  total == sumAbs(cells, DOMAIN cells)
                  sum == IF total < 1 THEN 1 ELSE total
              IN  normLoop(Matrix([key \in DOMAIN norm.matrix \cup DOMAIN cells |->
                                     IF key \in DOMAIN norm.matrix
                                       THEN norm.matrix[key]
                                       ELSE Quotient(cells[key], sum)],
                                  norm.rows, norm.cols),
                           index + 1, byRow, matrix, rows, cols)

\* a getNormRows that divides by the sums of the columns
getNormRowsByColumn(matrix, rows, cols) ==
  normLoop(Matrix(NoCells, rows, cols), 0, FALSE, matrix, rows, cols)

\* SparseMatrix<Index, double> getNormRows() const
getNormRows(matrix, rows, cols) ==
  normLoop(Matrix(NoCells, rows, cols), 0, TRUE, matrix, rows, cols)

\* SparseMatrix<Index, double> getNormCols() const
getNormCols(matrix, rows, cols) ==
  normLoop(Matrix(NoCells, rows, cols), 0, FALSE, matrix, rows, cols)

SparseMatrix_getRow ==
  /\ SparseMatrix_frame
  /\ \E index \in DimArgs, keepIndex \in BOOLEAN :
       SparseMatrix_call("getRow", <<index, keepIndex>>,
                         getRow(_matrix, _rows, _cols, index, keepIndex))

SparseMatrix_getCol ==
  /\ SparseMatrix_frame
  /\ \E index \in DimArgs, keepIndex \in BOOLEAN :
       SparseMatrix_call("getCol", <<index, keepIndex>>,
                         getCol(_matrix, _rows, _cols, index, keepIndex))

\* of an emptyRow or emptyColumn the record keeps the index and the number
\* of cells the row or column held
SparseMatrix_emptyRow ==
  /\ SparseMatrix_frame
  /\ \E index \in DimArgs :
       SparseMatrix_call("emptyRow",
                         <<index, Cardinality({key \in DOMAIN _matrix : key \div _cols = index})>>,
                         emptyRow(_matrix, _rows, _cols, index))

SparseMatrix_emptyColumn ==
  /\ SparseMatrix_frame
  /\ \E index \in DimArgs :
       SparseMatrix_call("emptyColumn",
                         <<index, Cardinality({key \in DOMAIN _matrix : key % _cols = index})>>,
                         emptyColumn(_matrix, _rows, _cols, index))

SparseMatrix_getDegreeVector ==
  /\ SparseMatrix_frame
  /\ SparseMatrix_call("getDegreeVector", <<>>, getDegreeVector(_matrix, _rows, _cols))

SparseMatrix_getStrengthVector ==
  /\ SparseMatrix_frame
  /\ SparseMatrix_call("getStrengthVector", <<>>, getStrengthVector(_matrix, _rows, _cols))

SparseMatrix_getLaplacian ==
  /\ SparseMatrix_frame
  /\ SparseMatrix_call("getLaplacian", <<>>, getLaplacian(_matrix, _rows, _cols))

SparseMatrix_getNormRows ==
  /\ SparseMatrix_frame
  /\ SparseMatrix_call("getNormRows", <<>>, getNormRows(_matrix, _rows, _cols))

SparseMatrix_getNormCols ==
  /\ SparseMatrix_frame
  /\ SparseMatrix_call("getNormCols", <<>>, getNormCols(_matrix, _rows, _cols))

InitSMLines == \E m \in Receivers(Values) : SparseMatrix_given(m)

\* one call that reads or empties the rows or columns of a matrix given with
\* its cells
NextSMLines ==
  \/ SparseMatrix_getRow
  \/ SparseMatrix_getCol
  \/ SparseMatrix_emptyRow
  \/ SparseMatrix_emptyColumn
  \/ SparseMatrix_getDegreeVector
  \/ SparseMatrix_getStrengthVector
  \/ SparseMatrix_getLaplacian
  \/ SparseMatrix_getNormRows
  \/ SparseMatrix_getNormCols

SpecSMLines == InitSMLines /\ [][NextSMLines]_vars


\* ------------------------------------------------------------------------
\* Properties of the sums, of the transposition and of the stored cells
\* ------------------------------------------------------------------------
\* what operator()(i, j) of the matrix m gives: <<value>>, or <<>> when it
\* raises
Reads(m, i, j) == at(m.matrix, m.rows, m.cols, i, j).ret

\* C22: operator+, operator-, operator+= and operator-= with an operand of
\* other dimensions raise the runtime_error "Dimensions do not match" and leave
\* the matrix as it was; with an operand of the same dimensions operator+ and
\* operator- return, and operator+= and operator-= leave, a matrix of these
\* dimensions that reads A(i, j) + B(i, j), respectively A(i, j) - B(i, j), at
\* every cell
C22_SumOf(result, a, b, sign) ==
  /\ result.rows = a.rows
  /\ result.cols = a.cols
  /\ \A i \in 0 .. a.rows - 1, j \in 0 .. a.cols - 1 :
       Reads(result, i, j) = <<Reads(a, i, j)[1] + sign * Reads(b, i, j)[1]>>

C22_SumStep ==
  last'.op \in {"operatorPlus", "operatorMinus", "operatorPlusAssign", "operatorMinusAssign"} =>
    LET a == Matrix(_matrix, _rows, _cols)
        b == last'.args[1]
        sign == IF last'.op \in {"operatorPlus", "operatorPlusAssign"} THEN 1 ELSE -1
    IN  IF a.rows # b.rows \/ a.cols # b.cols
          THEN /\ last'.err = "runtime_error"
               /\ UNCHANGED smVars
          ELSE /\ last'.err = "none"
               /\ IF last'.op \in {"operatorPlus", "operatorMinus"}
                    THEN /\ C22_SumOf(last'.ret[1], a, b, sign)
                         /\ UNCHANGED smVars
                    ELSE C22_SumOf(Matrix(_matrix', _rows', _cols'), a, b, sign)

C22_SumsCellByCell == [][C22_SumStep]_vars

\* an operator+= has added a value to the value a cell held
C22_Witness ==
  /\ kind = "SparseMatrix call"
  /\ last.op = "operatorPlusAssign"
  /\ last.err = "none"
  /\ \E key \in DOMAIN last.args[1].matrix :
       /\ key \in DOMAIN _matrix
       /\ _matrix[key] = 1 + last.args[1].matrix[key]


\* C27: symmetrize() on a square matrix leaves M(i, j) = old M(i, j) +
\* old M(j, i) at every cell, hence M(i, j) = M(j, i); on a matrix that is not
\* square it raises runtime_error and leaves the matrix as it was
C27_SymmetrizeStep ==
  last'.op = "symmetrize" =>
    LET old == Matrix(_matrix, _rows, _cols)
        new == Matrix(_matrix', _rows', _cols')
    IN  IF _rows # _cols
          THEN /\ last'.err = "runtime_error"
               /\ UNCHANGED smVars
          ELSE /\ last'.err = "none"
               /\ new.rows = old.rows
               /\ new.cols = old.cols
               /\ \A i \in 0 .. _rows - 1, j \in 0 .. _cols - 1 :
                    /\ Reads(new, i, j) = <<Reads(old, i, j)[1] + Reads(old, j, i)[1]>>
                    /\ Reads(new, i, j) = Reads(new, j, i)

C27_SymmetrizeAddsTransposed == [][C27_SymmetrizeStep]_vars

\* a symmetrize has left the sum of two different values in two mirrored
\* cells of a 2 x 2 matrix
C27_Witness ==
  /\ kind = "SparseMatrix call"
  /\ last.op = "symmetrize"
  /\ last.err = "none"
  /\ _rows = 2
  /\ _cols = 2
  /\ DOMAIN _matrix = {1, 2}
  /\ _matrix[1] = 3
  /\ _matrix[2] = 3


\* ------------------------------------------------------------------------
\* Properties of the rows, columns, degrees and norms
\* ------------------------------------------------------------------------
\* C23: getRow(i, false) returns a 1 x C matrix whose cell (0, j) is M(i, j);
\* getRow(i, true) an R x C matrix that reads as M on row i and holds nothing
\* in any other row; getCol(j, false) an R x 1 matrix whose cell (i, 0) is
\* M(i, j) and getCol(j, true) an R x C matrix that holds cells in column j
\* only; none of them changes M, and an index that is not below the dimension
\* raises out_of_range
C23_Kept(line, m, index, byRow) ==
  /\ line.rows = m.rows
  /\ line.cols = m.cols
  /\ \A i \in 0 .. m.rows - 1, j \in 0 .. m.cols - 1 :
       IF (IF byRow THEN i ELSE j) = index
         THEN Reads(line, i, j) = Reads(m, i, j)
         ELSE ~map_contains(line.matrix, IndexT(i * m.cols + j))

C23_Vector(line, m, index, byRow) ==
  IF byRow
    THEN /\ line.rows = 1
         /\ line.cols = m.cols
         /\ \A j \in 0 .. m.cols - 1 : Reads(line, 0, j) = Reads(m, index, j)
    ELSE /\ line.rows = m.rows
         /\ line.cols = 1
         /\ \A i \in 0 .. m.rows - 1 : Reads(line, i, 0) = Reads(m, i, index)

C23_LineStep ==
  last'.op \in {"getRow", "getCol"} =>
    LET m == Matrix(_matrix, _rows, _cols)
        index == last'.args[1]
        keepIndex == last'.args[2]
        byRow == last'.op = "getRow"
    IN  /\ UNCHANGED smVars
        /\ IF index >= (IF byRow THEN _rows ELSE _cols)
             THEN last'.err = "out_of_range"
             ELSE /\ last'.err = "none"
                  /\ \A key \in DOMAIN last'.ret[1].matrix :
                       key < last'.ret[1].rows * last'.ret[1].cols
                  /\ IF keepIndex
                       THEN C23_Kept(last'.ret[1], m, index, byRow)
                       ELSE C23_Vector(last'.ret[1], m, index, byRow)

C23_RowsAndColumns == [][C23_LineStep]_vars

\* getRow(1, false) has returned the two cells of the second row of a 2 x 2
\* matrix that holds different values in them
C23_Witness ==
  /\ kind = "SparseMatrix call"
  /\ last.op = "getRow"
  /\ last.args = <<1, FALSE>>
  /\ last.err = "none"
  /\ _rows = 2
  /\ _cols = 2
  /\ DOMAIN _matrix = {2, 3}
  /\ _matrix[2] # _matrix[3]
  /\ last.ret[1].matrix = [key \in {0, 1} |-> _matrix[key + 2]]


\* the sum of the values M(i, 0) .. M(i, j - 1) of row i
RECURSIVE RowSum(_, _, _)
RowSum(m, i, j) ==
  IF j = 0 THEN 0 ELSE RowSum(m, i, j - 1) + Reads(m, i, j - 1)[1]

\* C24: on a square N x N matrix getDegreeVector() returns an N x 1 vector
\* whose entry i is the number of cells of row i that are not zero, and
\* getStrengthVector() one whose entry i is the sum of the values of row i; on
\* a matrix that is not square both raise an error
C24_VectorStep ==
  last'.op \in {"getDegreeVector", "getStrengthVector"} =>
    LET m == Matrix(_matrix, _rows, _cols) IN
    IF _rows # _cols
      THEN last'.err # "none"
      ELSE /\ last'.err = "none"
           /\ last'.ret[1].rows = _rows
           /\ last'.ret[1].cols = 1
           /\ \A i \in 0 .. _rows - 1 :
                Reads(last'.ret[1], i, 0) =
                  IF last'.op = "getDegreeVector"
                    THEN <<Cardinality({j \in 0 .. _cols - 1 : Reads(m, i, j)[1] # 0})>>
                    ELSE <<RowSum(m, i, _cols)>>

C24_DegreeAndStrength == [][C24_VectorStep]_vars


\* C25: on a square matrix getLaplacian() returns Diag(degree) - A cell by
\* cell, A(i, j) being 1 where the matrix holds a value that is not zero and 0
\* elsewhere, and degree(i) the entry i of getDegreeVector(): L(i, i) =
\* degree(i) - A(i, i) and L(i, j) = -A(i, j) for i # j (stated for the
\* matrices that store no zero, whose stored cells are their non-zero cells)
C25_Pattern(m, i, j) == IF Reads(m, i, j)[1] # 0 THEN 1 ELSE 0

C25_LaplacianStep ==
  (last'.op = "getLaplacian" /\ _rows = _cols /\ \A key \in DOMAIN _matrix : _matrix[key] # 0) =>
    LET m == Matrix(_matrix, _rows, _cols)
        degree == getDegreeVector(_matrix, _rows, _cols).ret[1]
    IN  /\ last'.err = "none"
        /\ last'.ret[1].rows = _rows
        /\ last'.ret[1].cols = _cols
        /\ \A i \in 0 .. _rows - 1, j \in 0 .. _cols - 1 :
             Reads(last'.ret[1], i, j) =
               IF i = j
                 THEN <<Reads(degree, i, 0)[1] - C25_Pattern(m, i, i)>>
                 ELSE <<-C25_Pattern(m, i, j)>>

C25_LaplacianIsDegreeMinusAdjacency == [][C25_LaplacianStep]_vars


\* the sum of the absolute values of the quotients the cells todo hold
RECURSIVE L1(_, _)
L1(cells, todo) ==
  IF todo = {}
    THEN Quotient(0, 1)
    ELSE LET key == CHOOSE k \in todo : TRUE
             rest == L1(cells, todo \ {key})
         IN  Quotient(abs(cells[key].num) * rest.den + rest.num * cells[key].den,
                      cells[key].den * rest.den)

\* C26: getNormRows() returns a matrix of the same dimensions that holds, under
\* every stored key, the value divided by the sum of the absolute values of its
\* row, and the value itself (divisor 1) when that sum is zero; so the absolute
\* values of a row of the result sum to 1 when the row holds a value that is
\* not zero and to 0 when it does not; getNormCols() does the same by column;
\* neither changes the matrix.  Quotients and sums are exact.
C26_LineOf(key, byRow) == IF byRow THEN key \div _cols ELSE key % _cols

C26_NormStep ==
  last'.op \in {"getNormRows", "getNormCols"} =>
    LET byRow == last'.op = "getNormRows"
        norm == last'.ret[1]
        line(index) == {key \in DOMAIN _matrix : C26_LineOf(key, byRow) = index}
        sum(index) == sumAbs(_matrix, line(index))
    IN  /\ UNCHANGED smVars
        /\ last'.err = "none"
        /\ norm.rows = _rows
        /\ norm.cols = _cols
        /\ DOMAIN norm.matrix = DOMAIN _matrix
        /\ \A index \in 0 .. (IF byRow THEN _rows ELSE _cols) - 1 :
             /\ \A key \in line(index) :
                  norm.matrix[key] = Quotient(_matrix[key],
                                              IF sum(index) = 0 THEN 1 ELSE sum(index))
             /\ L1(norm.matrix, line(index)) =
                  IF sum(index) = 0 THEN Quotient(0, 1) ELSE Quotient(1, 1)

C28_EmptyStep ==
  last'.op \in {"emptyRow", "emptyColumn"} =>
    LET index == last'.args[1]
        byRow == last'.op = "emptyRow"
        inLine(key) == (IF byRow THEN key \div _cols ELSE key % _cols) = index
    IN  /\ index < (IF byRow THEN _rows ELSE _cols) => last'.err = "none"
        /\ _rows' = _rows
        /\ _cols' = _cols
        /\ DOMAIN _matrix' = {key \in DOMAIN _matrix : ~inLine(key)}
        /\ \A key \in DOMAIN _matrix' : _matrix'[key] = _matrix[key]

C28_EmptyRowColumnRemoveTheLine == [][C28_EmptyStep]_vars

\* emptyColumn(1) has removed the cell of the second column of a 2 x 2
\* matrix and left the cell of the first
C28_Witness ==
  /\ kind = "SparseMatrix call"
  /\ last.op = "emptyColumn"
  /\ last.args = <<1, 1>>
  /\ last.err = "none"
  /\ _rows = 2
  /\ _cols = 2
  /\ DOMAIN _matrix = {2}


\* C29: after any sequence of insert, insert_or_assign, erase, operator+= and
\* operator-= calls contains(i, j) is true exactly when the element at (i, j)
\* is not zero, and size() is the number of elements that are not zero
C29_QueryStep ==
  LET m == Matrix(_matrix, _rows, _cols) IN
  /\ (last'.op = "contains" /\ last'.err = "none") =>
       last'.ret = <<Reads(m, last'.args[1], last'.args[2])[1] # 0>>
  /\ last'.op = "size" =>
       last'.ret = <<Cardinality({c \in (0 .. _rows - 1) \X (0 .. _cols - 1)
                                    : Reads(m, c[1], c[2])[1] # 0})>>

C29_ContainsAndSizeCountNonZero == [][C29_QueryStep]_vars


\* ------------------------------------------------------------------------
\* Properties of the agents of a Node
\* ------------------------------------------------------------------------
\* the entries of agents but the one at position p
C30_Without(agents, p) ==
  SubSeq(agents, 1, p - 1) \o SubSeq(agents, p + 1, Len(agents))

\* C30: agents() lists the agents of a node by key, smallest first; several
\* agents may be held under one key, and an agent that is added goes behind
\* the agents of the same key, the others keeping their order (as they do when
\* an agent is removed)
C30_Sorted(agents) ==
  \A i \in 1 .. (Len(agents) - 1) : agents[i].key <= agents[i + 1].key

C30_AddStep ==
  (last'.op \in {"addAgent", "addAgentId"} /\ last'.err = "none") =>
    \E p \in 1 .. Len(m_agents') :
      /\ m_agents'[p].id = last'.args[Len(last'.args)]
      /\ C30_Without(m_agents', p) = m_agents
      /\ \A i \in 1 .. (p - 1) : m_agents'[i].key <= m_agents'[p].key
      /\ \A i \in (p + 1) .. Len(m_agents') : m_agents'[i].key > m_agents'[p].key

C30_RemoveStep ==
  (last'.op = "removeAgent" /\ last'.err = "none") =>
    \E p \in 1 .. Len(m_agents) :
      /\ m_agents[p].id = last'.args[1]
      /\ C30_Without(m_agents, p) = m_agents'

C30_AgentsStep ==
  /\ C30_Sorted(m_agents) => C30_Sorted(m_agents')
  /\ C30_AddStep
  /\ C30_RemoveStep

C30_AgentsByKeyThenArrival == [][C30_AgentsStep]_vars

\* agent 1 and then agent 0 were added with the same angle, and agent 1 is
\* listed first
C30_Witness ==
  /\ kind = "Intersection"
  /\ last = Call("addAgent", <<0, 0>>, <<>>, "none")
  /\ m_agents = <<[key |-> 0, id |-> 1], [key |-> 0, id |-> 0]>>


\* C31: agentCounter() returns the number of addAgent calls that succeeded
\* since the previous agentCounter() call, or since the node was constructed,
\* and sets the count to zero; removeAgent and rejected addAgent calls leave
\* the count as it was.  Step by step: a call made right after the
\* construction returns 0, every call returns the count and leaves 0, a
\* successful addAgent adds one, and the other calls add nothing.
C31_CountStep ==
  kind = "Intersection" =>
    /\ (last.op = "Intersection" /\ last'.op = "agentCounter") => last'.ret = <<0>>
    /\ last'.op = "agentCounter" =>
         /\ last'.ret = <<m_agentCounter>>
         /\ m_agentCounter' = 0
    /\ (last'.op \in {"addAgent", "addAgentId"} /\ last'.err = "none") =>
         m_agentCounter' = SizeT(m_agentCounter + 1)
    /\ (last'.op = "removeAgent" \/ last'.err # "none") =>
         m_agentCounter' = m_agentCounter

C31_AgentCounterCountsSinceLastRead == [][C31_CountStep]_vars


\* C32: in every state a matrix reaches by its constructors and by insert,
\* insert_or_assign, insert_and_expand, erase, eraseRow, eraseColumn, reshape
\* and clear calls, every stored key is smaller than rows * cols
C32_KeysWithinDimensions ==
  kind = "SparseMatrix" => \A key \in DOMAIN _matrix : key < _rows * _cols


\* C33: operator()(i, j) and operator()(index) of a cell within the
\* dimensions that stores no value return zero, also after assignments made
\* through the reference the non-const operator() returned
C33_ReadStep ==
  /\ (last'.op = "at" /\ last'.err = "none"
        /\ ~map_contains(_matrix, IndexT(last'.args[1] * _cols + last'.args[2]))) =>
       last'.ret = <<0>>
  /\ last'.op = "atIndex" =>
       \A index \in IndexArgs :
         (index < _rows * _cols /\ ~map_contains(_matrix, index)
            /\ SparseMatrix_call("atIndex", <<>>,
                                 atIndexOf(_matrix, _rows, _cols, _defaultReturn, index))) =>
           last'.ret = <<0>>

C33_EmptyCellReadsZero == [][C33_ReadStep]_vars

\* C34: the outcome of reshape(rows, cols) is the same for every order in
\* which the copy of the map is iterated, and a reshape to at least as many
\* rows and at least as many columns keeps every stored cell at its (i, j)
\* with its value
C34_ReshapeStep ==
  last'.op = "reshape" =>
  \A rows \in ShapeArgs, cols \in ShapeArgs :
    (\E res \in reshape(_matrix, _cols, rows, cols) :
       SparseMatrix_call("reshape", <<>>, res)) =>
      /\ \A one, other \in reshape(_matrix, _cols, rows, cols) :
           one.matrix = other.matrix
      /\ (rows >= _rows /\ cols >= _cols /\ _cols > 0) =>
           \A key \in DOMAIN _matrix :
             Stores(_matrix', cols, key \div _cols, key % _cols, _matrix[key])

C34_ReshapeIsOrderIndependent == [][C34_ReshapeStep]_vars

\* C35: on a light with g > 0 and r > 0 that is ticked, whatever calls set it
\* up, every street, priority or not, is green after at least one of any
\* g + r consecutive ticks
C35_NoStreetStarved ==
  (m_delay.has /\ m_delay.first > 0 /\ m_delay.second > 0
     /\ Len(greenLog) = CycleLen) =>
    \A s \in StreetIds :
      \E tick \in 1 .. Len(greenLog) : greenLog[tick] = (s \in m_streetPriorities)

\* the unbounded part of C35: a street of a ticked light with g > 0 and r > 0
\* is green again at some later tick
C35_GreenAgain ==
  \A s \in StreetIds :
    (last.op = "increaseCounter" /\ last.err = "none"
       /\ m_delay.first > 0 /\ m_delay.second > 0) ~> isGreenStreet(s)

\* the agent the call addAgent(angle, agentId) recorded in last' has put on
\* the node is stored under key
C36_StoredUnder(key) ==
  /\ holdsAgent(m_agents', last'.args[2])
  /\ \A i \in 1 .. Len(m_agents') :
       m_agents'[i].id = last'.args[2] => m_agents'[i].key = key

\* angle * 100 rounded to the nearest integer (angle in thousandths of a
\* radian)
C36_Round(angle) ==
  IF angle >= 0 THEN (angle + 5) \div 10 ELSE -((5 - angle) \div 10)

\* C36 as stated: addAgent(angle, id) stores the agent under the key
\* round(angle * 100), so 0.019 gives key 2 and -0.019 gives key -2
C36_RoundStep ==
  (last'.op = "addAgent" /\ last'.err = "none") =>
    C36_StoredUnder(C36_Round(last'.args[1]))

C36_KeyIsRounded == [][C36_RoundStep]_vars

\* C36: addAgent(angle, id) stores the agent under the key angle * 100 with
\* its fraction dropped: the integer k of the sign of the angle, or zero,
\* with |k| <= |angle * 100| < |k| + 1, so 0.019 gives key 1 and -0.019
\* gives key -1
C36_TruncateStep ==
  (last'.op = "addAgent" /\ last'.err = "none") =>
    \E k \in {m_agents'[i].key : i \in 1 .. Len(m_agents')} :
      /\ C36_StoredUnder(k)
      /\ abs(k) * 10 <= abs(last'.args[1])
      /\ abs(last'.args[1]) < (abs(k) + 1) * 10
      /\ k * last'.args[1] >= 0

C36_KeyIsTruncated == [][C36_TruncateStep]_vars

C36_Witness ==
  /\ kind = "Intersection"
  /\ last.op = "addAgent" /\ last.err = "none" /\ last.args[1] = 19
  /\ \E i \in 1 .. Len(m_agents) :
       m_agents[i] = [key |-> 1, id |-> last.args[2]]

\* C37: the key addAgent(agentId) stores the agent under is strictly larger
\* than every key the node held before the call, also when the largest key
\* held is the largest value of int16_t
C37_LastKeyStep ==
  (last'.op = "addAgentId" /\ last'.err = "none") =>
    \A i \in 1 .. Len(m_agents'), j \in 1 .. Len(m_agents) :
      m_agents'[i].id = last'.args[1] => m_agents[j].key < m_agents'[i].key

C37_NewKeyIsLargest == [][C37_LastKeyStep]_vars

\* C38: the first setDelay on a light as constructed leaves the counter at
\* 0; a setDelay (either overload) with the delay the light already has, its
\* counter inside the cycle, leaves the counter and the pending phase as they
\* are
C38_SameDelay ==
  /\ m_delay.has
  /\ m_delay.first = last'.args[1]
  /\ m_delay.second = (IF last'.op = "setDelay" THEN last'.args[1] ELSE last'.args[2])

C38_SetDelayStep ==
  last'.op \in {"setDelay", "setDelayPair"} =>
    /\ ~m_delay.has => m_counter' = 0
    /\ (C38_SameDelay /\ m_counter < CycleLen) =>
         /\ m_counter' = m_counter
         /\ m_phase' = m_phase
         /\ pending' = pending
         /\ m_delay' = m_delay

C38_SetDelayAgainChangesNothing == [][C38_SetDelayStep]_vars

C38_Witness ==
  /\ kind = "TrafficLight"
  /\ last.op = "setDelay" /\ last.args = <<m_delay.first>>
  /\ m_delay.has /\ m_delay.first = m_delay.second
  /\ m_counter = CycleLen - 1 /\ m_counter > m_delay.first
  /\ m_phase # 0

\* C39: removeAgent(id) on an Intersection that holds id raises nothing and
\* removes the one entry of id; the entries of the other agents keep their
\* keys and their order, the capacity, the street priorities and the agent
\* counter are unchanged, and the node is not full afterwards
C39_RemoveStep ==
  (last'.op = "removeAgent" /\ holdsAgent(m_agents, last'.args[1])) =>
    /\ last'.err = "none"
    /\ ~holdsAgent(m_agents', last'.args[1])
    /\ Len(m_agents') = Len(m_agents) - 1
    /\ \E p \in 1 .. Len(m_agents) :
         /\ m_agents[p].id = last'.args[1]
         /\ \A i \in 1 .. Len(m_agents') :
              m_agents'[i] = m_agents[IF i < p THEN i ELSE i + 1]
    /\ m_capacity' = m_capacity
    /\ m_streetPriorities' = m_streetPriorities
    /\ m_agentCounter' = m_agentCounter
    /\ ~Node_isFull(m_agents', m_capacity')

C39_RemoveAgentRemovesOneEntry == [][C39_RemoveStep]_vars

C39_Witness ==
  /\ kind = "Intersection"
  /\ last.op = "removeAgent" /\ last.err = "none"
  /\ ~holdsAgent(m_agents, last.args[1])
  /\ Len(m_agents) = 2 /\ m_capacity = 3
  /\ m_agents[1].key = m_agents[2].key
  /\ m_agents[1].id > last.args[1] /\ last.args[1] > m_agents[2].id

====
